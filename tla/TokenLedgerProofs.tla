------------------------- MODULE TokenLedgerProofs -------------------------
(***************************************************************************)
(* Proofs about what the token terminal makes the ledger do, for any       *)
(* number of concurrent calls, retries and recoveries, when amounts tell   *)
(* the interim accounts apart (terminal_collision is without that).        *)
(*                                                                         *)
(* First with replies that get lost, as long as the ledger's fee stays the *)
(* same (terminal_fee_lost_reply shows what happens when it does not):     *)
(*  - each step of a transfer is executed at most once, whatever fee the   *)
(*    canister is configured with at first;                                *)
(*  - the main account covers the user's balance, when the fee of the      *)
(*    configuration is not below the ledger's;                             *)
(*  - what has ended is settled as the ledger says, and what has not is    *)
(*    kept, when also the ids of two steps differ and the queries of a     *)
(*    recovery are answered.                                               *)
(*                                                                         *)
(* Then the same three with fees that change at any time, on the ledger    *)
(* and in the configuration, as long as no call is lost and the amounts of *)
(* withdrawals pay for both of their steps.                                *)
(***************************************************************************)
EXTENDS TokenTerminalProofs

-----------------------------------------------------------------------------
(* Steps of requests *)

\* What is typed of the ledger
LEMMA LedgerTyped ==
  ASSUME TerminalInv
  PROVE  /\ ledger_fee \in Nat /\ clock \in Nat /\ clock >= DedupPeriod /\ DedupPeriod \in Nat
         /\ \A a : BalanceOf(a) \in Nat
         /\ \A m \in DOMAIN requests : m \in Nat /\ requests[m] \in TransferRecord
  BY Constants DEF TerminalInv, LedgerInv, HistoryInv, BalanceOf

\* The transfers of the list and of flows are those of requests.
LEMMA MemosKnown ==
  ASSUME TerminalInv
  PROVE  /\ \A t \in recovery : t \in TransferRecord /\ t.memo \in DOMAIN requests
         /\ \A f \in Flow : OwnMemo(flows[f]) => flows[f].tx.memo \in DOMAIN requests
         /\ \A f \in Flow : \A t \in flows[f].queue : t \in TransferRecord /\ t.memo \in DOMAIN requests
  <1>1. \A m \in Nat : Live(m) => m \in DOMAIN requests
    BY DEF TerminalInv, OwnerInv
  <1>2. \A t \in recovery : t \in TransferRecord /\ t.memo \in Nat /\ Live(t.memo)
    BY ListTyped DEF TransferRecord, Live, Listed
  <1>3. \A f \in Flow : OwnMemo(flows[f]) => flows[f].tx.memo \in Nat /\ Live(flows[f].tx.memo)
    BY Typed DEF Live, HeldBy, OwnMemo
  <1>4. \A f \in Flow : \A t \in flows[f].queue : t \in TransferRecord /\ t.memo \in Nat /\ Live(t.memo)
    BY Typed DEF Live, HeldBy
  <1> QED
    BY <1>1, <1>2, <1>3, <1>4

\* What the methods of Transfer make of a step of a request is one.
LEMMA StepsStaySteps ==
  ASSUME NEW t \in TransferRecord, requests[t.memo] \in TransferRecord, StepOf(t), NEW now \in Nat,
         ledger_fee \in Nat
  PROVE  /\ StepOf(WithFee(t, ledger_fee)) /\ StepOf(ResetTs(WithFee(t, ledger_fee)))
         /\ t.stage = "Second" => StepOf(Renew(t, now))
         /\ t.stage = "First" /\ Started(t.memo) /\ Valid(NextStep(t, now)) => StepOf(NextStep(t, now))
  <1>1. StepOf(WithFee(t, ledger_fee))
    <2>1. PICK u : u = WithFee(t, ledger_fee)
      OBVIOUS
    <2>2. /\ u.operation = t.operation /\ u.stage = t.stage /\ u.interim = t.interim /\ u.amount = t.amount
          /\ u.fee = ledger_fee /\ u.created_at = t.created_at /\ u.memo = t.memo
      BY <2>1 DEF WithFee, TransferRecord
    <2> QED
      BY <2>1, <2>2 DEF StepOf
  <1>2. StepOf(ResetTs(WithFee(t, ledger_fee)))
    <2>1. PICK u : u = ResetTs(WithFee(t, ledger_fee))
      OBVIOUS
    <2>2. /\ u.operation = t.operation /\ u.stage = t.stage /\ u.interim = t.interim /\ u.amount = t.amount
          /\ u.fee = ledger_fee /\ u.created_at = 0 /\ u.memo = t.memo
      BY <2>1 DEF ResetTs, WithFee, TransferRecord
    <2> QED
      BY <2>1, <2>2 DEF StepOf
  <1>3. ASSUME t.stage = "Second" PROVE StepOf(Renew(t, now))
    <2>1. PICK u : u = Renew(t, now)
      OBVIOUS
    <2>2. /\ u.operation = t.operation /\ u.stage = t.stage /\ u.interim = t.interim /\ u.amount = t.amount
          /\ u.fee = t.fee /\ u.memo = t.memo
      BY <2>1 DEF Renew, TransferRecord
    <2> QED
      BY <1>3, <2>1, <2>2 DEF StepOf
  <1>4. ASSUME t.stage = "First", Started(t.memo), Valid(NextStep(t, now)) PROVE StepOf(NextStep(t, now))
    <2>1. PICK u : u = NextStep(t, now)
      OBVIOUS
    <2>2. /\ u.operation = t.operation /\ u.stage = "Second" /\ u.interim = t.interim
          /\ u.amount = AmountMinusFee(t) /\ u.fee = t.fee /\ u.memo = t.memo
      BY <2>1 DEF NextStep, TransferRecord
    <2>3. t.fee = ledger_fee /\ t.amount = requests[t.memo].amount /\ requests[t.memo].stage = "First"
      BY <1>4 DEF StepOf
    <2>4. AmountMinusFee(t) = Net(t.memo)
      BY <2>3 DEF Net, AmountMinusFee, WithFee, TransferRecord
    <2>5. u.amount > ledger_fee
      BY <1>4, <2>1, <2>2, <2>3 DEF Valid, EffectiveFee
    <2> QED
      BY <1>4, <2>1, <2>2, <2>3, <2>4, <2>5 DEF StepOf
  <1> QED
    BY <1>1, <1>2, <1>3, <1>4

\* The fees of the canister's owner and of the ledger are the same.
LEMMA FeeIsOne ==
  ASSUME OneFee, OnceInv
  PROVE  ledger_fee # 0 /\ LedgerFees = {ledger_fee} /\ AdminFees \subseteq {ledger_fee}
  BY DEF OneFee, OnceInv

\* A flow that awaits a reply knows nothing by it yet.
LEMMA NoReplyYet ==
  ASSUME NEW n, n.reply = NoReply, n.call # "minting_account",
         OwnMemo(n) => StepOf(n.tx), \A t \in n.queue : StepOf(t)
  PROVE  FlowOnce(n)
  BY DEF FlowOnce, TrueReply, NoReply

-----------------------------------------------------------------------------
(* Steps of the canister: the ledger stays as it is *)

LEMMA CanisterKeepsOnce ==
  ASSUME TerminalInv, OnceInv, UNCHANGED << ledger, requests >>,
         \A f \in Flow : FlowOnce(flows'[f]), \A t \in recovery' : StepOf(t)
  PROVE  OnceInv'
  <1>1. funds' = funds /\ blocks' = blocks /\ ledger_fee' = ledger_fee /\ requests' = requests
    BY DEF ledger
  <1>2. \A m : (Started(m)' <=> Started(m)) /\ Net(m)' = Net(m) /\ FirstBlock(m)' = FirstBlock(m)
    BY <1>1 DEF Started, FirstBlock, Net
  <1>3. \A t : StepOf(t)' <=> StepOf(t)
    BY <1>1, <1>2 DEF StepOf
  <1>4. \A r : TrueReply(r)' <=> TrueReply(r)
    BY <1>1, <1>2 DEF TrueReply
  <1>5. \A r : FlowOnce(r)' <=> FlowOnce(r)
    BY <1>3, <1>4 DEF FlowOnce, OwnMemo
  <1>6. (\A f \in Flow : FlowOnce(flows[f]))' /\ (\A t \in recovery : StepOf(t))'
    BY <1>3, <1>5
  <1>7. RequestsInv'
    BY <1>1 DEF OnceInv, RequestsInv
  <1>8. BlocksInv'
    BY <1>1, <1>2 DEF OnceInv, BlocksInv
  <1>9. InterimInv'
    <2>1. \A a : BalanceOf(a)' = BalanceOf(a)
      BY <1>1 DEF BalanceOf
    <2>2. \A m : BlocksOf(m, "interim")' = BlocksOf(m, "interim")
      BY <1>1 DEF BlocksOf
    <2> QED
      BY <1>1, <1>2, <2>1, <2>2 DEF OnceInv, InterimInv
  <1> QED
    BY <1>1, <1>6, <1>7, <1>8, <1>9 DEF OnceInv

\* The same, when only flow f moves
LEMMA FlowKeepsOnce ==
  ASSUME TerminalInv, OnceInv, UNCHANGED << ledger, requests >>, NEW f \in Flow, NEW n,
         flows' = [flows EXCEPT ![f] = n], FlowOnce(n), \A t \in recovery' : StepOf(t)
  PROVE  OnceInv'
  <1>1. flows \in [Flow -> FlowRecord] /\ \A g \in Flow : FlowOnce(flows[g])
    BY DEF TerminalInv, CanisterInv, OnceInv
  <1>2. \A g \in Flow : flows'[g] = IF g = f THEN n ELSE flows[g]
    BY <1>1
  <1>3. \A g \in Flow : FlowOnce(flows'[g])
    BY <1>1, <1>2
  <1> QED
    BY <1>3, CanisterKeepsOnce

\* The rest of a flow after one of its transfers has ended
LEMMA EndedOnce ==
  ASSUME TerminalInv, OnceInv, NEW f \in Flow, NEW fee \in Nat, NEW n, Ended(f, fee, n)
  PROVE  FlowOnce(n)
  <1>1. CASE n = Idle
    <2>1. n.reply = NoReply /\ n.call = "None" /\ n.queue = {} /\ ~ OwnMemo(n)
      BY <1>1, IdleFlow DEF Idle
    <2> QED
      BY <2>1, NoReplyYet
  <1>2. CASE n # Idle
    <2>1. PICK t \in flows[f].queue, rest \in SUBSET flows[f].queue :
            n = [Recover(f, t) EXCEPT !.fee = fee, !.queue = rest]
      BY <1>2 DEF Ended
    <2>2. /\ flows[f] \in FlowRecord /\ flows[f].queue \subseteq TransferRecord /\ clock \in Nat
          /\ \A u \in flows[f].queue : StepOf(u)
      BY Typed DEF OnceInv, FlowOnce
    <2>3. /\ Recover(f, t) \in FlowRecord /\ Recover(f, t).call \in {"transfer", "interim_balance"}
          /\ Recover(f, t).tx = t /\ Recover(f, t).reply = NoReply
      BY <2>2, RecoverFlow
    <2>4. n.reply = NoReply /\ n.call # "minting_account" /\ n.tx = t /\ n.queue = rest
      BY <2>1, <2>3 DEF FlowRecord
    <2> QED
      BY <2>2, <2>4, NoReplyYet
  <1> QED
    BY <1>1, <1>2

LEMMA ReturnOnce ==
  ASSUME TerminalInv, OnceInv, UNCHANGED << ledger, requests >>, NEW f \in Flow, NEW fee \in Nat, NEW memo,
         NEW result \in Outcome, Return(f, fee, memo, result), \A t \in recovery' : StepOf(t)
  PROVE  OnceInv'
  <1>1. PICK n : Ended(f, fee, n) /\ flows' = [flows EXCEPT ![f] = n]
    BY ReturnEnds
  <1>2. FlowOnce(n)
    BY <1>1, EndedOnce
  <1> QED
    BY <1>1, <1>2, FlowKeepsOnce

\* What is known of the transfer that a flow is about
LEMMA OwnStep ==
  ASSUME TerminalInv, OnceInv, NEW f \in Flow, OwnMemo(flows[f])
  PROVE  /\ flows[f].tx \in TransferRecord /\ requests[flows[f].tx.memo] \in TransferRecord
         /\ flows[f].tx.memo \in DOMAIN requests /\ StepOf(flows[f].tx) /\ TrueReply(flows[f])
         /\ flows[f].fee \in Nat /\ flows[f] \in FlowRecord /\ \A t \in flows[f].queue : StepOf(t)
         /\ ledger_fee \in Nat /\ clock \in Nat /\ \A t \in recovery : StepOf(t)
  BY Typed, MemosKnown, LedgerTyped DEF OnceInv, FlowOnce

LEMMA CompleteOnce ==
  ASSUME TerminalInv, OnceInv, UNCHANGED << ledger, requests >>, NEW f \in Flow, OwnMemo(flows[f]),
         NEW n \in 1 .. NRetries, Complete(f, flows[f].tx, n),
         flows[f].tx.stage = "First" => Started(flows[f].tx.memo)
  PROVE  OnceInv'
  <1> DEFINE tx == flows[f].tx
             second == NextStep(tx, clock)
  <1>1. /\ tx \in TransferRecord /\ requests[tx.memo] \in TransferRecord /\ StepOf(tx) /\ flows[f].fee \in Nat
        /\ flows[f] \in FlowRecord /\ ledger_fee \in Nat /\ clock \in Nat
        /\ \A t \in flows[f].queue : StepOf(t)
    BY OwnStep
  <1>2. \A t \in recovery' : StepOf(t)
    BY OwnStep DEF Complete
  <1>3. "Ok" \in Outcome /\ "InvalidParameters" \in Outcome
    BY DEF Outcome
  <1>4. CASE tx.stage = "First" /\ Valid(second)
    <2>1. flows' = [flows EXCEPT ![f] = Send(f, second, n, FALSE)]
      BY <1>4 DEF Complete
    <2>2. second \in TransferRecord
      BY <1>1, TransferTypes
    <2>3. StepOf(second)
      BY <1>1, <1>4, StepsStaySteps
    <2>4. PICK r : r = Send(f, second, n, FALSE)
      OBVIOUS
    <2>5. n \in 0 .. NRetries
      BY Constants
    <2>6. r.reply = NoReply /\ r.call = "transfer" /\ r.tx = second /\ r.queue = flows[f].queue
      BY <1>1, <2>2, <2>4, <2>5, SendFlow
    <2>7. FlowOnce(r)
      <3>1. OwnMemo(r) => StepOf(r.tx)
        BY <2>3, <2>6
      <3>2. \A t \in r.queue : StepOf(t)
        BY <1>1, <2>6
      <3> QED
        BY <2>6, <3>1, <3>2, NoReplyYet
    <2> QED
      BY <1>2, <2>1, <2>4, <2>7, FlowKeepsOnce
  <1>5. CASE ~ (tx.stage = "First" /\ Valid(second))
    <2>1. \E result \in Outcome : Return(f, flows[f].fee, tx.memo, result)
      BY <1>3, <1>5 DEF Complete
    <2> QED
      BY <1>1, <1>2, <2>1, ReturnOnce
  <1> QED
    BY <1>4, <1>5

LEMMA PushedSteps ==
  ASSUME NEW list, \A t \in list : StepOf(t), NEW tx, StepOf(tx)
  PROVE  \A t \in Pushed(list, tx) : StepOf(t)
  BY DEF Pushed

LEMMA RejectOnce ==
  ASSUME TerminalInv, OnceInv, UNCHANGED << ledger, requests >>, NEW f \in Flow, OwnMemo(flows[f]),
         Reject(f, flows[f].tx)
  PROVE  OnceInv'
  <1>1. StepOf(flows[f].tx) /\ flows[f].fee \in Nat /\ \A t \in recovery : StepOf(t)
    BY OwnStep
  <1>2. recovery' = Pushed(recovery, flows[f].tx) \/ recovery' = recovery
    BY DEF Reject
  <1>3. \A t \in recovery' : StepOf(t)
    BY <1>1, <1>2, PushedSteps
  <1>4. \E result \in Outcome : Return(f, flows[f].fee, flows[f].tx.memo, result)
    BY DEF Reject, Outcome
  <1> QED
    BY <1>1, <1>3, <1>4, ReturnOnce

LEMMA RetryOnce ==
  ASSUME TerminalInv, OnceInv, UNCHANGED << ledger, requests >>, NEW f \in Flow, OwnMemo(flows[f]),
         NEW fee \in Nat, NEW tx \in TransferRecord, StepOf(tx), NEW n \in 0 .. NRetries, NEW list,
         \A t \in list : StepOf(t), Retry(f, fee, tx, n, list)
  PROVE  OnceInv'
  <1>1. flows[f] \in FlowRecord /\ clock \in Nat /\ \A t \in flows[f].queue : StepOf(t)
    BY OwnStep
  <1>2. CASE n = 0
    <2>1. recovery' = Pushed(list, tx) /\ Return(f, fee, tx.memo, "Recoverable")
      BY <1>2 DEF Retry
    <2>2. "Recoverable" \in Outcome
      BY DEF Outcome
    <2> QED
      BY <2>1, <2>2, PushedSteps, ReturnOnce
  <1>3. CASE n # 0
    <2>1. /\ recovery' = list
          /\ flows' = [flows EXCEPT ![f] = [Send(f, tx, n, TRUE) EXCEPT !.fee = fee, !.since = flows[f].since]]
      BY <1>3 DEF Retry
    <2>2. PICK s : s = Send(f, tx, n, TRUE)
      OBVIOUS
    <2>3. /\ s \in FlowRecord /\ s.call = "transfer" /\ s.tx = tx /\ s.reply = NoReply
          /\ s.queue = flows[f].queue
      BY <1>1, <2>2, SendFlow
    <2>4. PICK r : r = [s EXCEPT !.fee = fee, !.since = flows[f].since]
      OBVIOUS
    <2>5. r.call = "transfer" /\ r.tx = tx /\ r.reply = NoReply /\ r.queue = flows[f].queue
      BY <2>3, <2>4 DEF FlowRecord
    <2>6. FlowOnce(r)
      BY <1>1, <2>5, NoReplyYet
    <2>7. flows' = [flows EXCEPT ![f] = r] /\ \A t \in recovery' : StepOf(t)
      BY <2>1, <2>2, <2>4
    <2> QED
      BY <2>6, <2>7, FlowKeepsOnce
  <1> QED
    BY <1>2, <1>3

\* A list that is rewritten with the fee of the ledger
LEMMA RewrittenSteps ==
  ASSUME TerminalInv, OnceInv, NEW list \in Rewritten(ledger_fee)
  PROVE  \A t \in list : StepOf(t)
  <1>1. \A t \in list : \E u \in recovery : t = ResetTs(WithFee(u, ledger_fee))
    BY LedgerTyped, RewrittenList
  <1>2. \A u \in recovery : u \in TransferRecord /\ requests[u.memo] \in TransferRecord /\ StepOf(u)
    BY MemosKnown, LedgerTyped DEF OnceInv
  <1>3. \A u \in recovery : StepOf(ResetTs(WithFee(u, ledger_fee)))
    BY <1>2, LedgerTyped, StepsStaySteps
  <1> QED
    BY <1>1, <1>3

LEMMA UpdateConfigOnce ==
  ASSUME TerminalInv, OnceInv, UNCHANGED << ledger, requests >>, NEW f \in Flow,
         flows[f].call \in {"transfer", "minting_account"},
         UpdateConfigAndRetry(f, ledger_fee, flows[f].retries - 1)
  PROVE  OnceInv'
  <1>1. PICK list \in Rewritten(ledger_fee) :
          Retry(f, ledger_fee, WithFee(flows[f].tx, ledger_fee), flows[f].retries - 1, list)
    BY DEF UpdateConfigAndRetry
  <1>2. OwnMemo(flows[f])
    BY DEF OwnMemo
  <1>3. WithFee(flows[f].tx, ledger_fee) \in TransferRecord
    BY <1>2, OwnStep, TransferTypes
  <1>4. StepOf(WithFee(flows[f].tx, ledger_fee))
    BY <1>2, OwnStep, StepsStaySteps
  <1>5. flows[f].retries - 1 \in 0 .. NRetries
    <2>1. flows[f].retries \in 0 .. NRetries /\ flows[f].retries > 0
      BY Typed DEF CleanFlow
    <2> QED
      BY <2>1, Constants
  <1>6. \A t \in list : StepOf(t)
    BY <1>1, RewrittenSteps
  <1>7. ledger_fee \in Nat
    BY LedgerTyped
  <1> QED
    BY <1>1, <1>2, <1>3, <1>4, <1>5, <1>6, <1>7, RetryOnce

LEMMA ContinueOnce ==
  ASSUME TerminalInv, OnceInv, OneFee, NEW f \in Flow, Continue(f)
  PROVE  OnceInv' \/ OnDepositBalance(f)
  <1> DEFINE tx == flows[f].tx
  <1>1. flows[f].retries \in 0 .. NRetries /\ CleanFlow(flows[f])
    BY Typed
  <1>2. NRetries \in 1 .. NRetries /\ ledger_fee # 0
    BY Constants, FeeIsOne
  <1>3. CASE OnSuccess(f)
    <2>1. /\ flows[f].call = "transfer" /\ Complete(f, tx, flows[f].retries)
          /\ UNCHANGED << ledger, requests >> /\ flows[f].reply.kind \in {"Ok", "Duplicate"}
      BY <1>3 DEF OnSuccess, OnTransfer, Replied
    <2>2. flows[f].retries \in 1 .. NRetries /\ OwnMemo(flows[f])
      BY <1>1, <2>1, Constants DEF CleanFlow, OwnMemo
    <2>3. tx.stage = "First" => Started(tx.memo)
      BY <2>1, <2>2, OwnStep DEF TrueReply
    <2> QED
      BY <2>1, <2>2, <2>3, CompleteOnce
  <1>4. CASE OnUnknown(f)
    <2>1. /\ flows[f].call = "transfer" /\ UNCHANGED << ledger, requests >>
          /\ Retry(f, flows[f].fee, tx, flows[f].retries - 1, recovery)
      BY <1>4 DEF OnUnknown, OnTransfer, Replied
    <2>2. flows[f].retries - 1 \in 0 .. NRetries /\ OwnMemo(flows[f])
      BY <1>1, <2>1, Constants DEF CleanFlow, OwnMemo
    <2> QED
      BY <2>1, <2>2, OwnStep, RetryOnce
  <1>5. CASE OnWrongFee(f)
    <2>1. flows[f].call = "transfer" /\ UNCHANGED << ledger, requests >> /\ flows[f].reply.kind = "BadFee"
      BY <1>5 DEF OnWrongFee, OnTransfer, Replied
    <2>2. OwnMemo(flows[f])
      BY <2>1 DEF OwnMemo
    <2>3. flows[f].reply.value = ledger_fee
      BY <2>1, <2>2, OwnStep DEF TrueReply
    <2>4. CASE ledger_fee = flows[f].fee
      <3>1. /\ flows' = [flows EXCEPT ![f].call = "minting_account", ![f].reply = NoReply]
            /\ recovery' = recovery
        BY <1>5, <2>3, <2>4 DEF OnWrongFee
      <3>2. PICK r : r = [flows[f] EXCEPT !.call = "minting_account", !.reply = NoReply]
        OBVIOUS
      <3>3. flows' = [flows EXCEPT ![f] = r]
        BY <3>1, <3>2
      <3>4. /\ r.call = "minting_account" /\ r.tx = tx /\ r.queue = flows[f].queue /\ r.fee = flows[f].fee
        BY <2>2, <3>2, OwnStep DEF FlowRecord
      <3>5. FlowOnce(r)
        BY <2>2, <2>4, <3>4, OwnStep DEF FlowOnce, TrueReply
      <3> QED
        BY <2>1, <2>2, <3>1, <3>3, <3>5, OwnStep, FlowKeepsOnce
    <2>5. CASE ledger_fee # flows[f].fee
      <3>1. UpdateConfigAndRetry(f, ledger_fee, flows[f].retries - 1)
        BY <1>2, <1>5, <2>3, <2>5 DEF OnWrongFee
      <3> QED
        BY <2>1, <3>1, UpdateConfigOnce
    <2> QED
      BY <2>4, <2>5
  <1>6. CASE OnRejected(f)
    BY <1>6, RejectOnce DEF OnRejected, OnTransfer, Replied, OwnMemo
  <1>7. CASE OnMintingAccount(f)
    <2>1. /\ flows[f].call = "minting_account" /\ UNCHANGED << ledger, requests >>
          /\ UpdateConfigAndRetry(f, flows[f].fee, flows[f].retries - 1)
      BY <1>7 DEF OnMintingAccount, Replied
    <2>2. flows[f].fee = ledger_fee
      BY <2>1, OwnStep DEF TrueReply, OwnMemo
    <2> QED
      BY <2>1, <2>2, UpdateConfigOnce
  <1>8. CASE OnInterimBalance(f)
    <2>1. /\ flows[f].call = "interim_balance" /\ UNCHANGED << ledger, requests >>
          /\ RecoverOldTx(f, tx, flows[f].reply.value) /\ flows[f].reply.kind = "Value"
      BY <1>8 DEF OnInterimBalance, Replied
    <2>2. OwnMemo(flows[f])
      BY <2>1 DEF OwnMemo
    <2>3. CASE Reject(f, tx)
      BY <2>1, <2>2, <2>3, RejectOnce
    <2>4. CASE (tx.stage = "First" => flows[f].reply.value # 0) /\ Complete(f, tx, NRetries)
      <3>1. tx.stage = "First" => Started(tx.memo)
        BY <2>1, <2>2, <2>4, OwnStep DEF TrueReply
      <3> QED
        BY <1>2, <2>1, <2>2, <2>4, <3>1, CompleteOnce
    <2>5. CASE /\ tx.stage = "Second" /\ recovery' = recovery
               /\ flows' = [flows EXCEPT ![f] = Send(f, Renew(tx, clock), NRetries, TRUE)]
      <3>1. Renew(tx, clock) \in TransferRecord
        BY <2>2, OwnStep, TransferTypes
      <3>2. StepOf(Renew(tx, clock))
        BY <2>2, <2>5, OwnStep, StepsStaySteps
      <3>3. PICK r : r = Send(f, Renew(tx, clock), NRetries, TRUE)
        OBVIOUS
      <3>4. NRetries \in 0 .. NRetries
        BY Constants
      <3>5. r.call = "transfer" /\ r.tx = Renew(tx, clock) /\ r.reply = NoReply /\ r.queue = flows[f].queue
        BY <2>2, <3>1, <3>3, <3>4, OwnStep, SendFlow
      <3>6. FlowOnce(r)
        BY <2>2, <3>2, <3>5, OwnStep, NoReplyYet
      <3> QED
        BY <2>1, <2>2, <2>5, <3>3, <3>6, OwnStep, FlowKeepsOnce
    <2> QED
      BY <2>1, <2>3, <2>4, <2>5 DEF RecoverOldTx
  <1>9. CASE OnQueryFailed(f)
    <2>1. UNCHANGED << ledger, requests, recovery >> /\ flows[f].fee \in Nat /\ flows[f].call \in Query
      BY <1>9, Typed DEF OnQueryFailed, Replied
    <2>2. \A t \in recovery' : StepOf(t)
      BY <2>1 DEF OnceInv
    <2>3. CASE flows[f].call = "deposit_balance"
      <3>1. flows' = [flows EXCEPT ![f] = Idle]
        BY <1>9, <2>3 DEF OnQueryFailed
      <3>2. FlowOnce(Idle)
        BY LedgerTyped, EndedOnce DEF Ended
      <3> QED
        BY <2>1, <2>2, <3>1, <3>2, FlowKeepsOnce
    <2>4. CASE flows[f].call # "deposit_balance"
      <3>1. \E result \in Outcome : Return(f, flows[f].fee, tx.memo, result)
        BY <1>9, <2>4 DEF OnQueryFailed, Outcome
      <3> QED
        BY <2>1, <2>2, <3>1, ReturnOnce
    <2> QED
      BY <2>3, <2>4
  <1> QED
    BY <1>3, <1>4, <1>5, <1>6, <1>7, <1>8, <1>9 DEF Continue

\* A request is what the call made, with accounts of its own.
LEMMA RequestMade ==
  ASSUME RequestsInv, NEW m \in DOMAIN requests
  PROVE  /\ requests[m].memo = m
         /\ requests[m].interim.kind = "interim" /\ requests[m].interim.amount = requests[m].amount
         /\ requests[m].stage = IF requests[m].operation = "CreditOnSuccess" THEN "Single" ELSE "First"
  <1>1. PICK op, amount, fee, time : requests[m] = NewTransfer(op, amount, fee, time, m)
    BY DEF RequestsInv
  <1> QED
    BY <1>1 DEF NewTransfer

LEMMA RequestShape ==
  ASSUME OnceInv, NEW m \in DOMAIN requests
  PROVE  /\ requests[m].memo = m
         /\ requests[m].interim.kind = "interim" /\ requests[m].interim.amount = requests[m].amount
         /\ requests[m].stage = IF requests[m].operation = "CreditOnSuccess" THEN "Single" ELSE "First"
  BY RequestMade DEF OnceInv

\* A new transfer has an interim account that nothing was ever paid to, and no
\* block of the ledger is its own.
LEMMA BeginOnce ==
  ASSUME TerminalInv, OnceInv, DistinctAmounts, NEW f \in Flow,
         flows[f].call \in {"None", "deposit_balance"}, NEW op \in Operation, NEW amount \in Nat,
         NEW fee \in Nat, NEW tx, tx = NewTransfer(op, amount, fee, clock, Len(requests) + 1), Begin(f, tx)
  PROVE  OnceInv'
  <1>1. PICK l \in Nat : l = Len(requests) /\ DOMAIN requests = 1 .. l /\ requests \in Seq(TransferRecord)
    BY DEF TerminalInv, HistoryInv
  <1>2. /\ tx.operation = op /\ tx.amount = amount /\ tx.fee = fee /\ tx.created_at = clock /\ tx.memo = l + 1
        /\ tx.stage = (IF op = "CreditOnSuccess" THEN "Single" ELSE "First")
        /\ tx.interim = [kind |-> "interim", amount |-> amount, created_at |-> clock]
    BY <1>1 DEF NewTransfer
  <1>3. tx \in TransferRecord
    <2>1. clock \in Nat /\ l + 1 \in Nat
      BY <1>1, LedgerTyped
    <2>2. PICK next \in Nat : next = l + 1
      BY <2>1
    <2>3. NewTransfer(op, amount, fee, clock, next) \in TransferRecord
      BY <2>1, NewTransferType
    <2> QED
      BY <1>1, <2>2, <2>3
  <1>4. /\ requests' = Append(requests, tx) /\ recovery' = recovery
        /\ funds' = funds /\ blocks' = blocks /\ ledger_fee' = ledger_fee
        /\ \A m \in DOMAIN requests : requests[m].amount # amount
    BY <1>2 DEF Begin, ledger
  <1>5. /\ DOMAIN requests' = 1 .. (l + 1) /\ requests'[l + 1] = tx
        /\ \A m \in DOMAIN requests : requests'[m] = requests[m] /\ m # l + 1 /\ m \in DOMAIN requests'
        /\ \A m \in DOMAIN requests' : m = l + 1 \/ m \in DOMAIN requests
    BY <1>1, <1>3, <1>4
  <1>6. \A m \in DOMAIN requests :
          (Started(m)' <=> Started(m)) /\ Net(m)' = Net(m) /\ FirstBlock(m)' = FirstBlock(m)
    BY <1>4, <1>5 DEF Started, FirstBlock, Net
  <1>7. ~ Started(l + 1)'
    <2>1. FirstBlock(l + 1)'.memo = l + 1
      BY <1>2, <1>3, <1>4, <1>5 DEF FirstBlock, Block, WithFee, TransferRecord
    <2>2. \A b \in blocks : b.memo \in DOMAIN requests
      BY DEF OnceInv, BlocksInv
    <2>3. \A b \in blocks : b.memo # l + 1
      BY <1>5, <2>2
    <2> QED
      BY <1>4, <2>1, <2>3 DEF Started
  <1>8. \A t : t.memo \in DOMAIN requests /\ StepOf(t) => StepOf(t)'
    BY <1>4, <1>5, <1>6 DEF StepOf
  <1>9. RequestsInv'
    <2>1. \A m \in DOMAIN requests :
            /\ requests[m] = NewTransfer(requests[m].operation, requests[m].amount, requests[m].fee,
                                         requests[m].created_at, m)
            /\ \A k \in DOMAIN requests : requests[k].amount = requests[m].amount => k = m
      BY DEF OnceInv, RequestsInv
    <2>2. tx = NewTransfer(tx.operation, tx.amount, tx.fee, tx.created_at, l + 1)
      BY <1>1, <1>2
    <2>3. \A m \in DOMAIN requests' :
            requests'[m] = NewTransfer(requests'[m].operation, requests'[m].amount, requests'[m].fee,
                                       requests'[m].created_at, m)
      BY <1>5, <2>1, <2>2
    <2>4. \A m, k \in DOMAIN requests' : requests'[k].amount = requests'[m].amount => k = m
      BY <1>2, <1>4, <1>5, <2>1
    <2> QED
      BY <2>3, <2>4 DEF RequestsInv
  <1>10. BlocksInv'
    BY <1>4, <1>5, <1>6 DEF OnceInv, BlocksInv
  <1>11. InterimInv'
    <2>1. \A a : BalanceOf(a)' = BalanceOf(a)
      BY <1>4 DEF BalanceOf
    <2>2. \A m : BlocksOf(m, "interim")' = BlocksOf(m, "interim")
      BY <1>4 DEF BlocksOf
    <2>3. BlocksOf(l + 1, "interim") = {}
      BY <1>5 DEF OnceInv, BlocksInv, BlocksOf
    <2>4. BalanceOf(tx.interim) = 0
      <3>1. \A a \in DOMAIN funds : a.kind = "interim" => \E m \in DOMAIN requests : a = requests[m].interim
        BY DEF OnceInv, InterimInv
      <3>2. \A m \in DOMAIN requests : requests[m].interim.amount = requests[m].amount
        BY RequestShape
      <3>3. tx.interim.kind = "interim" /\ tx.interim.amount = amount
        BY <1>2
      <3>4. tx.interim \notin DOMAIN funds
        BY <1>4, <3>1, <3>2, <3>3
      <3> QED
        BY <3>4 DEF BalanceOf
    <2>5. \A a \in DOMAIN funds' : a.kind = "interim" => \E m \in DOMAIN requests' : a = requests'[m].interim
      BY <1>4, <1>5 DEF OnceInv, InterimInv
    <2>6. ASSUME NEW m \in DOMAIN requests'
          PROVE  /\ \A b, c \in BlocksOf(m, "interim")' : b = c
                 /\ requests'[m].stage = "First" =>
                      BalanceOf(requests[m].interim)' =
                        IF Started(m)' /\ BlocksOf(m, "interim")' = {} THEN Net(m)' ELSE 0
      <3>1. CASE m = l + 1
        BY <1>5, <1>7, <2>1, <2>2, <2>3, <2>4, <3>1
      <3>2. CASE m # l + 1
        <4>1. m \in DOMAIN requests
          BY <1>5, <3>2
        <4> QED
          BY <1>5, <1>6, <2>1, <2>2, <4>1 DEF OnceInv, InterimInv
      <3> QED
        BY <3>1, <3>2
    <2> QED
      BY <2>5, <2>6 DEF InterimInv
  <1>12. (\A t \in recovery : StepOf(t))'
    BY <1>4, <1>8, MemosKnown DEF OnceInv
  <1>13. StepOf(tx)'
    BY <1>2, <1>5, <1>7 DEF StepOf
  <1>14. PICK n : n = [Send(f, tx, NRetries, FALSE) EXCEPT !.fee = tx.fee]
    OBVIOUS
  <1>15. n.call = "transfer" /\ n.tx = tx /\ n.queue = {} /\ n.reply = NoReply
    <2>1. flows[f] \in FlowRecord /\ flows[f].queue = {}
      BY Typed DEF CleanFlow
    <2> QED
      BY <1>14, <2>1 DEF Send, FlowRecord
  <1>16. FlowOnce(n)'
    <2>1. TrueReply(n)'
      BY <1>15 DEF TrueReply, NoReply
    <2> QED
      BY <1>13, <1>15, <2>1 DEF FlowOnce
  <1>17. \A g \in Flow : flows'[g] = IF g = f THEN n ELSE flows[g]
    BY <1>14 DEF TerminalInv, CanisterInv, Begin
  <1>18. \A g \in Flow : FlowOnce(flows[g])'
    <2> SUFFICES ASSUME NEW g \in Flow PROVE FlowOnce(flows[g])'
      OBVIOUS
    <2>1. CASE g = f
      BY <1>16, <1>17, <2>1
    <2>2. CASE g # f
      <3>1. PICK r : r = flows[g] /\ r = flows'[g]
        BY <1>17, <2>2
      <3>2. /\ OwnMemo(r) => StepOf(r.tx) /\ r.tx.memo \in DOMAIN requests
            /\ \A t \in r.queue : StepOf(t) /\ t.memo \in DOMAIN requests
            /\ TrueReply(r)
        BY <3>1, MemosKnown DEF OnceInv, FlowOnce
      <3>3. (OwnMemo(r) => StepOf(r.tx)') /\ \A t \in r.queue : StepOf(t)'
        BY <1>8, <3>2
      <3>4. TrueReply(r)'
        BY <1>4, <1>6, <3>2 DEF TrueReply, OwnMemo
      <3>5. FlowOnce(r)'
        BY <3>3, <3>4 DEF FlowOnce
      <3> QED
        BY <3>1, <3>5
    <2> QED
      BY <2>1, <2>2
  <1>19. (\A g \in Flow : FlowOnce(flows[g]))'
    BY <1>18
  <1> QED
    BY <1>4, <1>9, <1>10, <1>11, <1>12, <1>19 DEF OnceInv

LEMMA DepositOnce ==
  ASSUME TerminalInv, OnceInv, DistinctAmounts, NEW f \in Flow, NEW amount \in Amounts,
         Deposit(f, amount) \/ Withdraw(f, amount)
  PROVE  OnceInv'
  <1>1. PICK op \in Operation : Begin(f, New(op, amount))
    BY DEF Deposit, Withdraw, Operation
  <1>2. amount \in Nat /\ saved_fee \in Nat
    BY Constants, ListTyped
  <1>3. flows[f].call = "None"
    BY DEF Deposit, Withdraw, Busy
  <1>4. PICK tx : tx = New(op, amount)
    OBVIOUS
  <1>5. tx = NewTransfer(op, amount, saved_fee, clock, Len(requests) + 1)
    BY <1>4 DEF New
  <1> QED
    BY <1>1, <1>2, <1>3, <1>4, <1>5, BeginOnce

LEMMA DepositAllOnce ==
  ASSUME TerminalInv, OnceInv, DistinctAmounts, NEW f \in Flow, DepositAll(f) \/ OnDepositBalance(f)
  PROVE  OnceInv'
  <1>1. CASE DepositAll(f)
    <2>1. PICK n : n = [Idle EXCEPT !.call = "deposit_balance", !.fee = saved_fee]
      OBVIOUS
    <2>2. n.call = "deposit_balance" /\ n.reply = NoReply /\ n.queue = {}
      BY <2>1 DEF Idle
    <2>3. FlowOnce(n)
      BY <2>2, NoReplyYet DEF OwnMemo
    <2>4. flows' = [flows EXCEPT ![f] = n] /\ UNCHANGED << recovery, ledger, requests >>
      BY <1>1, <2>1 DEF DepositAll, history
    <2>5. \A t \in recovery' : StepOf(t)
      BY <2>4 DEF OnceInv
    <2> QED
      BY <2>3, <2>4, <2>5, FlowKeepsOnce
  <1>2. CASE OnDepositBalance(f)
    <2>1. PICK op, amount, fee : op = "CreditOnSuccess" /\ amount = flows[f].reply.value /\ fee = flows[f].fee
      OBVIOUS
    <2>2. op \in Operation /\ amount \in Nat /\ fee \in Nat /\ flows[f].call = "deposit_balance"
      <3>1. flows[f] \in FlowRecord
        BY Typed
      <3> QED
        BY <1>2, <2>1, <3>1 DEF Operation, FlowRecord, ReplyRecord, OnDepositBalance, Replied
    <2>3. PICK tx : tx = NewTransfer(op, amount, fee, clock, Len(requests) + 1)
      OBVIOUS
    <2>4. \/ Begin(f, tx)
          \/ flows' = [flows EXCEPT ![f] = Idle] /\ UNCHANGED << recovery, ledger, requests >>
      BY <1>2, <2>1, <2>3 DEF OnDepositBalance, history
    <2>5. CASE Begin(f, tx)
      BY <2>2, <2>3, <2>5, BeginOnce
    <2>6. CASE flows' = [flows EXCEPT ![f] = Idle] /\ UNCHANGED << recovery, ledger, requests >>
      <3>1. FlowOnce(Idle)
        BY LedgerTyped, EndedOnce DEF Ended
      <3>2. \A t \in recovery' : StepOf(t)
        BY <2>6 DEF OnceInv
      <3> QED
        BY <2>6, <3>1, <3>2, FlowKeepsOnce
    <2> QED
      BY <2>4, <2>5, <2>6
  <1> QED
    BY <1>1, <1>2

LEMMA RecoverAllOnce ==
  ASSUME TerminalInv, OnceInv, NEW f \in Flow, RecoverAll(f)
  PROVE  OnceInv'
  <1>1. recovery' = {} /\ UNCHANGED << ledger, requests >>
    BY DEF RecoverAll, Taken
  <1>2. \A t \in recovery : t \in TransferRecord /\ StepOf(t)
    BY ListTyped DEF OnceInv
  <1>3. CASE UNCHANGED flows
    <2>1. \A g \in Flow : FlowOnce(flows'[g])
      BY <1>3 DEF OnceInv
    <2> QED
      BY <1>1, <2>1, CanisterKeepsOnce
  <1>4. CASE \E t \in recovery, rest \in SUBSET recovery :
               flows' = [flows EXCEPT ![f] = [Recover(f, t) EXCEPT !.fee = saved_fee, !.queue = rest]]
    <2>1. PICK t \in recovery, rest \in SUBSET recovery :
            flows' = [flows EXCEPT ![f] = [Recover(f, t) EXCEPT !.fee = saved_fee, !.queue = rest]]
      BY <1>4
    <2>2. PICK n : n = [Recover(f, t) EXCEPT !.fee = saved_fee, !.queue = rest]
      OBVIOUS
    <2>3. /\ Recover(f, t) \in FlowRecord /\ Recover(f, t).call \in {"transfer", "interim_balance"}
          /\ Recover(f, t).tx = t /\ Recover(f, t).reply = NoReply
      BY <1>2, Typed, RecoverFlow
    <2>4. n.reply = NoReply /\ n.call # "minting_account" /\ n.tx = t /\ n.queue = rest
      BY <2>2, <2>3 DEF FlowRecord
    <2>5. FlowOnce(n)
      BY <1>2, <2>4, NoReplyYet
    <2> QED
      BY <1>1, <2>1, <2>2, <2>5, FlowKeepsOnce
  <1> QED
    BY <1>3, <1>4 DEF RecoverAll

LEMMA SetFeeOnce ==
  ASSUME TerminalInv, OnceInv, OneFee, NEW fee \in AdminFees, SetFee(fee)
  PROVE  OnceInv'
  <1>1. fee = ledger_fee
    BY FeeIsOne
  <1>2. recovery' \in Rewritten(ledger_fee) /\ UNCHANGED << flows, ledger, requests >>
    BY <1>1 DEF SetFee, history
  <1>3. \A t \in recovery' : StepOf(t)
    BY <1>2, RewrittenSteps
  <1>4. \A g \in Flow : FlowOnce(flows'[g])
    BY <1>2 DEF OnceInv
  <1> QED
    BY <1>2, <1>3, <1>4, CanisterKeepsOnce

-----------------------------------------------------------------------------
(* Steps of the ledger *)

\* A step that the ledger does not find too old has the time of its request,
\* and so the one block that it may have.
LEMMA FirstStepBlock ==
  ASSUME TerminalInv, OnceInv, NEW f \in Flow, OwnMemo(flows[f]), flows[f].tx.stage # "Second",
         flows[f].tx.fee = ledger_fee, clock - flows[f].tx.created_at < DedupPeriod
  PROVE  Block(flows[f].tx) = FirstBlock(flows[f].tx.memo)
  <1> DEFINE tx == flows[f].tx
             m == tx.memo
  <1>1. PICK u : u = WithFee(requests[m], ledger_fee)
    OBVIOUS
  <1>2. tx \in TransferRecord /\ requests[m] \in TransferRecord /\ m \in DOMAIN requests /\ StepOf(tx)
    BY OwnStep
  <1>3. tx.created_at \in Nat /\ clock \in Nat /\ clock >= DedupPeriod /\ DedupPeriod \in Nat
    BY <1>2, LedgerTyped DEF TransferRecord
  <1>4. tx.created_at # 0
    BY <1>3
  <1>5. /\ tx.stage = requests[m].stage /\ tx.amount = requests[m].amount /\ tx.interim = requests[m].interim
        /\ tx.created_at = requests[m].created_at
    BY <1>2, <1>4 DEF StepOf
  <1>6. requests[m].memo = m
    BY <1>2, RequestShape
  <1>7. /\ u.stage = tx.stage /\ u.amount = tx.amount /\ u.interim = tx.interim /\ u.fee = tx.fee
        /\ u.created_at = tx.created_at /\ u.memo = tx.memo
    BY <1>1, <1>2, <1>5, <1>6 DEF WithFee, TransferRecord
  <1>8. Block(u) = Block(tx)
    BY <1>7 DEF Block, From, To, AmountMinusFee
  <1> QED
    BY <1>1, <1>8 DEF FirstBlock

\* What an answer tells
LEMMA Answers ==
  ASSUME TerminalInv, OnceInv, NEW f \in Flow, OwnMemo(flows[f])
  PROVE  LET tx == flows[f].tx
             answer == Answer(tx)
         IN  /\ answer.kind = "BadFee" => answer.value = ledger_fee
             /\ answer.kind \in {"Ok", "Duplicate"} =>
                  tx.fee = ledger_fee /\ clock - tx.created_at < DedupPeriod
             /\ answer.kind = "Duplicate" => Block(tx) \in blocks
             /\ answer.kind = "Ok" =>
                  Block(tx) \notin blocks /\ BalanceOf(From(tx)) >= AmountMinusFee(tx) + tx.fee
             /\ answer.kind # "Value"
  <1>1. flows[f].tx \in TransferRecord /\ clock \in Nat /\ DedupPeriod \in Nat
    BY OwnStep, LedgerTyped
  <1>2. flows[f].tx.created_at \in Nat /\ flows[f].tx.fee \in Nat /\ AmountMinusFee(flows[f].tx) \in Nat
    BY <1>1, TransferTypes DEF TransferRecord
  <1>3. BalanceOf(From(flows[f].tx)) \in Nat
    BY LedgerTyped
  <1> QED
    BY <1>1, <1>2, <1>3 DEF Answer, Reply

\* What the accounts hold after a transfer
LEMMA BalanceAfter ==
  ASSUME TerminalInv, NEW tx \in TransferRecord, Execute(tx),
         BalanceOf(From(tx)) >= AmountMinusFee(tx) + tx.fee, NEW a
  PROVE  BalanceOf(a)' = BalanceOf(a) + (IF a = To(tx) THEN AmountMinusFee(tx) ELSE 0)
                                      - (IF a = From(tx) THEN AmountMinusFee(tx) + tx.fee ELSE 0)
  <1>1. PICK net \in Nat, fee \in Nat, from \in {From(tx)}, to \in {To(tx)} :
          net = AmountMinusFee(tx) /\ fee = tx.fee
    BY TransferTypes DEF TransferRecord
  <1>2. \A b : BalanceOf(b) \in Nat
    BY LedgerTyped
  <1>3. funds' = [b \in DOMAIN funds \cup {to} |->
                   BalanceOf(b) + (IF b = to THEN net ELSE 0) - (IF b = from THEN net + fee ELSE 0)]
    BY <1>1 DEF Execute
  <1>4. BalanceOf(a)' = IF a \in DOMAIN funds' THEN funds'[a] ELSE 0
    BY DEF BalanceOf
  <1>5. CASE a \in DOMAIN funds \cup {to}
    BY <1>1, <1>3, <1>4, <1>5
  <1>6. CASE a \notin DOMAIN funds \cup {to}
    <2>1. BalanceOf(a)' = 0 /\ BalanceOf(a) = 0 /\ a # to
      BY <1>3, <1>4, <1>6 DEF BalanceOf
    <2>2. a = from => net + fee = 0
      BY <1>1, <1>2, <2>1
    <2> QED
      BY <1>1, <2>1, <2>2
  <1> QED
    BY <1>5, <1>6

\* The ledger executes the step that flow f is about.
LEMMA ExecuteOnce ==
  ASSUME TerminalInv, OnceInv, NEW f \in Flow, OwnMemo(flows[f]), Answer(flows[f].tx).kind = "Ok",
         Execute(flows[f].tx), UNCHANGED << ledger_fee, requests >>
  PROVE  /\ BlocksInv' /\ InterimInv'
         /\ \A m \in DOMAIN requests : Started(m)' <=> (Started(m) \/ m = flows[f].tx.memo)
  <1> DEFINE tx == flows[f].tx
             m == tx.memo
  <1>1. /\ tx \in TransferRecord /\ requests[m] \in TransferRecord /\ m \in DOMAIN requests /\ StepOf(tx)
        /\ tx.fee = ledger_fee /\ clock - tx.created_at < DedupPeriod /\ Block(tx) \notin blocks
        /\ BalanceOf(From(tx)) >= AmountMinusFee(tx) + tx.fee
    BY OwnStep, Answers
  <1>2. blocks' = blocks \cup {Block(tx)}
    BY DEF Execute
  <1>3. \A k : FirstBlock(k)' = FirstBlock(k) /\ Net(k)' = Net(k)
    BY DEF FirstBlock, Net
  <1>4. \A k \in DOMAIN requests : FirstBlock(k).memo = k
    <2> SUFFICES ASSUME NEW k \in DOMAIN requests PROVE FirstBlock(k).memo = k
      OBVIOUS
    <2>1. requests[k].memo = k /\ requests[k] \in TransferRecord
      BY RequestShape, LedgerTyped
    <2> QED
      BY <2>1 DEF FirstBlock, Block, WithFee, TransferRecord
  <1>5. /\ Block(tx).memo = m /\ Block(tx).from = From(tx)
    BY DEF Block
  <1>6. tx.stage # "Second" => Block(tx) = FirstBlock(m) /\ ~ Started(m)
    BY <1>1, FirstStepBlock DEF Started
  <1>7. tx.stage = "Second" => Started(m) /\ requests[m].stage = "First" /\ tx.amount = Net(m) /\ tx.amount > ledger_fee
    BY <1>1 DEF StepOf
  <1>8. \A k \in DOMAIN requests : Started(k)' <=> (Started(k) \/ k = m)
    BY <1>2, <1>3, <1>4, <1>5, <1>6, <1>7 DEF Started
  <1>9. tx.interim = requests[m].interim /\ (tx.stage # "Second" => tx.stage = requests[m].stage)
    BY <1>1 DEF StepOf
  <1>10. BlocksInv'
    <2>1. \A b \in blocks :
            /\ b.memo \in DOMAIN requests
            /\ \/ b = FirstBlock(b.memo)
               \/ /\ b.from = requests[b.memo].interim /\ Started(b.memo)
                  /\ requests[b.memo].stage = "First"
      BY DEF OnceInv, BlocksInv
    <2>2. tx.stage = "Second" => Block(tx).from = requests[m].interim
      BY <1>5, <1>9 DEF From
    <2>3. \A b \in blocks' :
            /\ b.memo \in DOMAIN requests'
            /\ \/ b = FirstBlock(b.memo)'
               \/ /\ b.from = requests'[b.memo].interim /\ Started(b.memo)'
                  /\ requests'[b.memo].stage = "First"
      <3> SUFFICES ASSUME NEW b \in blocks'
                   PROVE  /\ b.memo \in DOMAIN requests
                          /\ \/ b = FirstBlock(b.memo)
                             \/ /\ b.from = requests[b.memo].interim /\ Started(b.memo)'
                                /\ requests[b.memo].stage = "First"
        BY <1>3
      <3>1. CASE b \in blocks
        BY <1>8, <2>1, <3>1
      <3>2. CASE b = Block(tx)
        BY <1>1, <1>5, <1>6, <1>7, <1>8, <2>2, <3>2
      <3> QED
        BY <1>2, <3>1, <3>2
    <2> QED
      BY <2>3 DEF BlocksInv
  <1>11. From(tx).kind = "interim" <=> tx.stage = "Second"
    <2>1. requests[m].interim.kind = "interim"
      BY <1>1, RequestShape
    <2> QED
      BY <1>1, <1>9, <2>1 DEF From, Own, TransferRecord, Stage
  <1>12. To(tx).kind = "interim" <=> tx.stage = "First"
    <2>1. requests[m].interim.kind = "interim"
      BY <1>1, RequestShape
    <2> QED
      BY <1>1, <1>9, <2>1 DEF To, Own, TransferRecord, Stage
  <1>13. (tx.stage = "Second" => From(tx) = requests[m].interim) /\ (tx.stage = "First" => To(tx) = requests[m].interim)
    BY <1>9 DEF From, To
  <1>14. \A k \in DOMAIN requests :
           BlocksOf(k, "interim")' = BlocksOf(k, "interim") \cup
             (IF k = m /\ tx.stage = "Second" THEN {Block(tx)} ELSE {})
    BY <1>2, <1>5, <1>11 DEF BlocksOf
  <1>15. \A a \in DOMAIN funds' : a.kind = "interim" => \E k \in DOMAIN requests' : a = requests'[k].interim
    <2>1. DOMAIN funds' = DOMAIN funds \cup {To(tx)}
      BY DEF Execute
    <2> QED
      BY <1>1, <1>12, <1>13, <2>1 DEF OnceInv, InterimInv
  <1>16. ASSUME NEW k \in DOMAIN requests
         PROVE  /\ \A b, c \in BlocksOf(k, "interim")' : b = c
                /\ requests[k].stage = "First" =>
                     BalanceOf(requests[k].interim)' =
                       IF Started(k)' /\ BlocksOf(k, "interim")' = {} THEN Net(k) ELSE 0
    <2> DEFINE a == requests[k].interim
    <2>1. /\ \A b, c \in BlocksOf(k, "interim") : b = c
          /\ requests[k].stage = "First" =>
               BalanceOf(a) = IF Started(k) /\ BlocksOf(k, "interim") = {} THEN Net(k) ELSE 0
      BY DEF OnceInv, InterimInv
    <2>2. PICK net \in Nat, fee \in Nat : net = AmountMinusFee(tx) /\ fee = tx.fee
      BY <1>1, TransferTypes DEF TransferRecord
    <2>3. BalanceOf(a)' = BalanceOf(a) + (IF a = To(tx) THEN net ELSE 0)
                                       - (IF a = From(tx) THEN net + fee ELSE 0)
      <3>1. PICK acc : acc = a
        OBVIOUS
      <3>2. BalanceOf(acc)' = BalanceOf(acc) + (IF acc = To(tx) THEN net ELSE 0)
                                       - (IF acc = From(tx) THEN net + fee ELSE 0)
        BY <1>1, <2>2, BalanceAfter
      <3>3. BalanceOf(acc)' = BalanceOf(a)'
        BY <3>1 DEF BalanceOf
      <3> QED
        BY <3>1, <3>2, <3>3
    <2>4. BalanceOf(a) \in Nat
      BY LedgerTyped
    <2>5. CASE k # m
      <3>1. a # requests[m].interim
        BY <1>1, <2>5, RequestShape DEF OnceInv, RequestsInv
      <3>2. a.kind = "interim"
        BY RequestShape
      <3>3. a # To(tx) /\ a # From(tx)
        BY <1>11, <1>12, <1>13, <3>1, <3>2
      <3>4. BalanceOf(a)' = BalanceOf(a)
        BY <2>3, <2>4, <3>3
      <3> QED
        BY <1>8, <1>14, <2>1, <2>5, <3>4
    <2>6. CASE k = m /\ tx.stage = "Second"
      <3>1. net + fee = Net(m) /\ Net(m) > 0
        <4>1. tx.amount \in Nat /\ ledger_fee \in Nat
          BY <1>1, LedgerTyped DEF TransferRecord
        <4> QED
          BY <1>1, <1>7, <2>2, <2>6, <4>1 DEF AmountMinusFee
      <3>2. a = From(tx) /\ a # To(tx)
        BY <1>12, <1>13, <1>11, <2>6
      <3>3. BalanceOf(a) >= net + fee
        BY <1>1, <2>2, <3>2
      <3>4. BlocksOf(m, "interim") = {} /\ BalanceOf(a) = Net(m)
        BY <1>7, <2>1, <2>6, <3>1, <3>3
      <3>5. BalanceOf(a)' = 0
        BY <2>2, <2>3, <2>4, <3>1, <3>2, <3>4
      <3>6. BlocksOf(k, "interim")' = {Block(tx)}
        BY <1>1, <1>14, <2>6, <3>4
      <3> QED
        BY <2>6, <3>5, <3>6
    <2>7. CASE k = m /\ tx.stage = "First"
      <3>1. net = Net(m)
        <4>1. tx.amount = requests[m].amount /\ tx.fee = ledger_fee
          BY <1>1, <2>7 DEF StepOf
        <4> QED
          BY <1>1, <2>2, <4>1 DEF Net, AmountMinusFee, WithFee, TransferRecord
      <3>2. a # From(tx) /\ a = To(tx)
        BY <1>11, <1>12, <1>13, <2>7
      <3>3. BlocksOf(m, "interim") = {}
        <4>1. \A b \in BlocksOf(m, "interim") : b = FirstBlock(m)
          BY <1>6, <2>7 DEF OnceInv, BlocksInv, BlocksOf
        <4>2. FirstBlock(m).from.kind # "interim"
          BY <1>5, <1>6, <1>11, <2>7
        <4> QED
          BY <4>1, <4>2 DEF BlocksOf
      <3>4. BalanceOf(a) = 0
        BY <1>6, <1>9, <2>1, <2>7
      <3>5. BalanceOf(a)' = Net(m)
        BY <2>2, <2>3, <2>4, <3>1, <3>2, <3>4
      <3>6. BlocksOf(k, "interim")' = {} /\ Started(k)'
        BY <1>1, <1>8, <1>14, <2>7, <3>3
      <3> QED
        BY <2>7, <3>5, <3>6
    <2>8. CASE k = m /\ tx.stage = "Single"
      BY <1>1, <1>9, <1>14, <2>1, <2>8
    <2>9. tx.stage \in {"Single", "First", "Second"}
      BY <1>1 DEF TransferRecord, Stage
    <2> QED
      BY <2>5, <2>6, <2>7, <2>8, <2>9
  <1>17. InterimInv'
    <2>1. \A k \in DOMAIN requests' :
            /\ \A b, c \in BlocksOf(k, "interim")' : b = c
            /\ requests'[k].stage = "First" =>
                 BalanceOf(requests[k].interim)' =
                   IF Started(k)' /\ BlocksOf(k, "interim")' = {} THEN Net(k)' ELSE 0
      BY <1>3, <1>16
    <2> QED
      BY <1>15, <2>1 DEF InterimInv
  <1> QED
    BY <1>8, <1>10, <1>17

\* A reply for flow f keeps the invariant if blocks are only added, and of
\* none but the transfer of f.
LEMMA HandledOnce ==
  ASSUME TerminalInv, OnceInv, NEW f \in Flow, NEW call, NEW reply, Handled(f, call, reply),
         BlocksInv', InterimInv',
         \A k \in DOMAIN requests : Started(k) => Started(k)',
         \A k \in DOMAIN requests : Started(k)' =>
           Started(k) \/ (OwnMemo(flows[f]) /\ k = flows[f].tx.memo /\ flows[f].tx.fee = ledger_fee),
         NEW n, n = [flows[f] EXCEPT !.reply = reply], TrueReply(n)'
  PROVE  OnceInv'
  <1>1. /\ flows' = [flows EXCEPT ![f] = n] /\ recovery' = recovery /\ requests' = requests
        /\ ledger_fee' = ledger_fee
    BY DEF Handled, history
  <1>2. flows \in [Flow -> FlowRecord] /\ flows[f] \in FlowRecord /\ CleanFlow(flows[f])
    BY Typed
  <1>3. \A g \in Flow : flows'[g] = IF g = f THEN n ELSE flows[g]
    BY <1>1, <1>2
  <1>4. \A m : Net(m)' = Net(m)
    BY <1>1 DEF Net
  <1>5. \A t : t.memo \in DOMAIN requests /\ StepOf(t) /\ (Started(t.memo)' => t.fee = ledger_fee) => StepOf(t)'
    BY <1>1, <1>4 DEF StepOf
  <1>6. \A t : StepOf(t) /\ Started(t.memo) => t.fee = ledger_fee
    BY DEF StepOf
  <1>7. \A t : /\ t.memo \in DOMAIN requests /\ StepOf(t)
               /\ OwnMemo(flows[f]) => t.memo # flows[f].tx.memo
               => StepOf(t)'
    BY <1>5, <1>6
  <1>8. OwnMemo(flows[f]) => StepOf(flows[f].tx) /\ flows[f].tx.memo \in DOMAIN requests
    BY OwnStep
  <1>9. OwnMemo(n) => StepOf(n.tx)'
    <2>1. n.tx = flows[f].tx /\ n.call = flows[f].call
      BY <1>2 DEF FlowRecord
    <2>2. PICK t : t = flows[f].tx
      OBVIOUS
    <2>3. OwnMemo(flows[f]) => StepOf(t)'
      BY <1>5, <1>6, <1>8, <2>2
    <2> QED
      BY <2>1, <2>2, <2>3 DEF OwnMemo
  <1>10. \A m \in Nat : OwnMemo(flows[f]) /\ m = flows[f].tx.memo => Holds(flows[f], m) /\ ~ Lists(recovery, m)
    BY ListTyped DEF Holds
  <1>11. \A t \in recovery : StepOf(t)'
    <2> SUFFICES ASSUME NEW t \in recovery PROVE StepOf(t)'
      OBVIOUS
    <2>1. t \in TransferRecord /\ t.memo \in DOMAIN requests /\ StepOf(t)
      BY MemosKnown DEF OnceInv
    <2>2. t.memo \in Nat
      BY <2>1 DEF TransferRecord
    <2>3. OwnMemo(flows[f]) => t.memo # flows[f].tx.memo
      BY <1>10, <2>2 DEF Lists
    <2> QED
      BY <1>7, <2>1, <2>3
  <1>12. n.queue = flows[f].queue /\ \A t \in flows[f].queue : StepOf(t)'
    <2>1. n.queue = flows[f].queue
      BY <1>2 DEF FlowRecord
    <2>2. \A t \in flows[f].queue : t.memo \in DOMAIN requests /\ StepOf(t)
      BY MemosKnown DEF OnceInv, FlowOnce
    <2>3. OwnMemo(flows[f]) => \A t \in flows[f].queue : t.memo # flows[f].tx.memo
      BY <1>2 DEF CleanFlow
    <2> QED
      BY <1>7, <2>1, <2>2, <2>3
  <1>13. FlowOnce(n)'
    BY <1>9, <1>12 DEF FlowOnce
  <1>14. ASSUME NEW g \in Flow, g # f PROVE FlowOnce(flows[g])'
    <2>1. PICK r : r = flows[g] /\ r = flows'[g]
      BY <1>3, <1>14
    <2>2. /\ OwnMemo(r) => StepOf(r.tx) /\ r.tx.memo \in DOMAIN requests
          /\ \A t \in r.queue : StepOf(t) /\ t.memo \in DOMAIN requests
          /\ TrueReply(r)
      BY <2>1, MemosKnown DEF OnceInv, FlowOnce
    <2>3. \A m \in Nat : Holds(r, m) => ~ Holds(flows[f], m)
      BY <1>14, <2>1, HeldByHolds DEF TerminalInv, OwnerInv
    <2>4. /\ OwnMemo(r) => r.tx.memo \in Nat /\ Holds(r, r.tx.memo)
          /\ \A t \in r.queue : t.memo \in Nat /\ Holds(r, t.memo)
      BY <2>1, Typed DEF Holds
    <2>5. OwnMemo(flows[f]) => Holds(flows[f], flows[f].tx.memo)
      BY DEF Holds
    <2>6. (OwnMemo(r) => StepOf(r.tx)') /\ \A t \in r.queue : StepOf(t)'
      BY <1>7, <2>2, <2>3, <2>4, <2>5
    <2>7. TrueReply(r)'
      BY <1>1, <2>2 DEF TrueReply, OwnMemo
    <2>8. FlowOnce(r)'
      BY <2>6, <2>7 DEF FlowOnce
    <2> QED
      BY <2>1, <2>8
  <1>15. (\A g \in Flow : FlowOnce(flows[g]))'
    <2> SUFFICES ASSUME NEW g \in Flow PROVE FlowOnce(flows[g])'
      OBVIOUS
    <2>1. CASE g = f
      BY <1>3, <1>13, <2>1
    <2> QED
      BY <1>14, <2>1
  <1>16. (\A t \in recovery : StepOf(t))'
    BY <1>1, <1>11
  <1>17. RequestsInv'
    BY <1>1 DEF OnceInv, RequestsInv
  <1> QED
    BY <1>1, <1>15, <1>16, <1>17 DEF OnceInv

\* The ledger that executes nothing
LEMMA LedgerSame ==
  ASSUME OnceInv, UNCHANGED << blocks, funds, ledger_fee, requests >>
  PROVE  BlocksInv' /\ InterimInv' /\ \A k : Started(k)' <=> Started(k)
  <1>1. \A m : (Started(m)' <=> Started(m)) /\ Net(m)' = Net(m) /\ FirstBlock(m)' = FirstBlock(m)
    BY DEF Started, FirstBlock, Net
  <1>2. \A a : BalanceOf(a)' = BalanceOf(a)
    BY DEF BalanceOf
  <1>3. \A m : BlocksOf(m, "interim")' = BlocksOf(m, "interim")
    BY DEF BlocksOf
  <1>4. BlocksInv'
    BY <1>1 DEF OnceInv, BlocksInv
  <1>5. InterimInv'
    BY <1>1, <1>2, <1>3 DEF OnceInv, InterimInv
  <1> QED
    BY <1>1, <1>4, <1>5

\* The call of a transfer reaches the ledger, which answers or is not heard.
LEMMA TransferOnce ==
  ASSUME TerminalInv, OnceInv, NEW f \in Flow, NEW reply, Handled(f, "transfer", reply), Executed(f),
         reply = Answer(flows[f].tx) \/ reply = Reply("MaybeFailed", 0)
  PROVE  OnceInv'
  <1> DEFINE tx == flows[f].tx
  <1>1. /\ flows[f].call = "transfer" /\ flows[f] \in FlowRecord
        /\ ledger_fee' = ledger_fee /\ requests' = requests
    BY Typed DEF Handled, history
  <1>2. OwnMemo(flows[f])
    BY <1>1 DEF OwnMemo
  <1>3. PICK n : n = [flows[f] EXCEPT !.reply = reply]
    OBVIOUS
  <1>4. n.call = "transfer" /\ n.reply = reply /\ n.tx = tx
    BY <1>1, <1>3 DEF FlowRecord
  <1>5. PICK answer : answer = Answer(tx)
    OBVIOUS
  <1>6. /\ answer.kind = "BadFee" => answer.value = ledger_fee
        /\ answer.kind \in {"Ok", "Duplicate"} => tx.fee = ledger_fee /\ clock - tx.created_at < DedupPeriod
        /\ answer.kind = "Duplicate" => Block(tx) \in blocks
    BY <1>2, <1>5, Answers
  <1>7. reply.kind \in {"Ok", "Duplicate", "BadFee"} => reply = answer
    BY <1>5 DEF Reply
  <1>8. tx.memo \in DOMAIN requests /\ n.tx.memo = tx.memo
    BY <1>2, <1>4, OwnStep
  <1>9. CASE answer.kind = "Ok"
    <2>1. Execute(tx)
      BY <1>5, <1>9 DEF Executed
    <2>2. /\ BlocksInv' /\ InterimInv'
          /\ \A m \in DOMAIN requests : Started(m)' <=> (Started(m) \/ m = tx.memo)
      BY <1>1, <1>2, <1>5, <1>9, <2>1, ExecuteOnce
    <2>3. Started(n.tx.memo)'
      BY <1>8, <2>2
    <2>4. TrueReply(n)'
      BY <1>1, <1>4, <1>6, <1>7, <2>3 DEF TrueReply
    <2> QED
      BY <1>2, <1>3, <1>6, <1>9, <2>2, <2>4, HandledOnce
  <1>10. CASE answer.kind # "Ok"
    <2>1. UNCHANGED << blocks, funds >>
      BY <1>5, <1>10 DEF Executed
    <2>2. BlocksInv' /\ InterimInv' /\ \A k : Started(k)' <=> Started(k)
      BY <1>1, <2>1, LedgerSame
    <2>3. answer.kind = "Duplicate" /\ tx.stage = "First" => Started(tx.memo)
      BY <1>2, <1>6, FirstStepBlock DEF Started
    <2>4. TrueReply(n)'
      BY <1>1, <1>4, <1>6, <1>7, <1>10, <2>2, <2>3 DEF TrueReply
    <2> QED
      BY <1>3, <2>2, <2>4, HandledOnce
  <1> QED
    BY <1>9, <1>10

LEMMA LedgerStepOnce ==
  ASSUME TerminalInv, OnceInv, NEW f \in Flow, LedgerStep(f)
  PROVE  OnceInv'
  <1>1. CASE LedgerTransfers(f)
    BY <1>1, TransferOnce DEF LedgerTransfers
  <1>2. CASE ReplyLost(f)
    BY <1>2, TransferOnce DEF ReplyLost
  <1>3. flows[f] \in FlowRecord
    BY Typed
  \* The replies after which the ledger is as it was
  <1>4. ASSUME NEW call, NEW reply, Handled(f, call, reply), UNCHANGED << blocks, funds >>,
               reply.kind \notin {"Ok", "Duplicate", "BadFee"},
               call = "interim_balance" /\ reply.kind = "Value" => reply.value = BalanceOf(flows[f].tx.interim)
        PROVE  OnceInv'
    <2>1. flows[f].call = call /\ ledger_fee' = ledger_fee /\ requests' = requests
      BY <1>4 DEF Handled, history
    <2>2. BlocksInv' /\ InterimInv' /\ \A k : Started(k)' <=> Started(k)
      BY <1>4, <2>1, LedgerSame
    <2>3. PICK n : n = [flows[f] EXCEPT !.reply = reply]
      OBVIOUS
    <2>4. n.call = call /\ n.reply = reply /\ n.tx = flows[f].tx /\ n.fee = flows[f].fee
      BY <1>3, <2>1, <2>3 DEF FlowRecord
    <2>5. TrueReply(flows[f])
      BY DEF OnceInv, FlowOnce
    <2>6. call = "interim_balance" /\ reply.kind = "Value" /\ reply.value # 0 /\ flows[f].tx.stage = "First"
            => Started(flows[f].tx.memo)
      <3> SUFFICES ASSUME call = "interim_balance", reply.kind = "Value", reply.value # 0,
                          flows[f].tx.stage = "First"
                   PROVE  Started(flows[f].tx.memo)
        OBVIOUS
      <3>1. OwnMemo(flows[f])
        BY <2>1 DEF OwnMemo
      <3>2. StepOf(flows[f].tx) /\ flows[f].tx.memo \in DOMAIN requests
        BY <3>1, OwnStep
      <3>3. flows[f].tx.interim = requests[flows[f].tx.memo].interim /\ requests[flows[f].tx.memo].stage = "First"
        BY <3>2 DEF StepOf
      <3> QED
        BY <1>4, <3>2, <3>3 DEF OnceInv, InterimInv
    <2>7. TrueReply(n)'
      BY <1>4, <2>1, <2>2, <2>4, <2>5, <2>6 DEF TrueReply
    <2> QED
      BY <1>4, <2>2, <2>3, <2>7, HandledOnce
  <1>5. CASE CallLost(f)
    <2>1. PICK kind \in {"MaybeFailed", "Unavailable"} : Handled(f, "transfer", Reply(kind, 0))
      BY <1>5 DEF CallLost
    <2>2. Reply(kind, 0).kind = kind
      BY DEF Reply
    <2> QED
      BY <1>4, <1>5, <2>1, <2>2 DEF CallLost
  <1>6. CASE LedgerReads(f)
    <2>1. PICK q \in Query :
            Handled(f, q, Reply("Value",
              CASE q = "deposit_balance" -> BalanceOf(Own("deposit"))
                [] q = "interim_balance" -> BalanceOf(flows[f].tx.interim)
                [] q = "minting_account" -> 0))
      BY <1>6 DEF LedgerReads
    <2>2. PICK reply : /\ Handled(f, q, reply) /\ reply.kind = "Value"
                       /\ q = "interim_balance" => reply.value = BalanceOf(flows[f].tx.interim)
      BY <2>1 DEF Reply
    <2> QED
      BY <1>4, <1>6, <2>2 DEF LedgerReads
  <1>7. CASE QueryLost(f)
    <2>1. PICK q : Handled(f, q, Reply("MaybeFailed", 0))
      BY <1>7 DEF QueryLost
    <2>2. Reply("MaybeFailed", 0).kind = "MaybeFailed"
      BY DEF Reply
    <2> QED
      BY <1>4, <1>7, <2>1, <2>2 DEF QueryLost
  <1> QED
    BY <1>1, <1>2, <1>5, <1>6, <1>7 DEF LedgerStep

-----------------------------------------------------------------------------
(* The theorems *)

LEMMA OnceInvInit == Init => OnceInv
  <1> SUFFICES ASSUME Init PROVE OnceInv
    OBVIOUS
  <1>1. /\ flows = [f \in Flow |-> Idle] /\ recovery = {} /\ blocks = {} /\ requests = << >>
        /\ ledger_fee \in LedgerFees
    BY DEF Init
  <1>2. DOMAIN requests = {}
    BY <1>1
  <1>3. RequestsInv /\ BlocksInv
    BY <1>1, <1>2 DEF RequestsInv, BlocksInv
  <1>4. InterimInv
    <2>1. \A a \in DOMAIN funds : a.kind # "interim"
      BY DEF Init, Own
    <2> QED
      BY <1>2, <2>1 DEF InterimInv
  <1>5. FlowOnce(Idle)
    <2>1. Idle.reply = NoReply /\ Idle.call = "None" /\ Idle.queue = {} /\ ~ OwnMemo(Idle)
      BY IdleFlow DEF Idle
    <2> QED
      BY <2>1, NoReplyYet
  <1> QED
    BY <1>1, <1>3, <1>4, <1>5 DEF OnceInv

LEMMA OnceInvNext ==
  ASSUME OneFee, DistinctAmounts, TerminalInv, OnceInv, [Next]_vars
  PROVE  OnceInv'
  <1>1. CASE \E f \in Flow, amount \in Amounts : Deposit(f, amount) \/ Withdraw(f, amount)
    BY <1>1, DepositOnce
  <1>2. CASE \E f \in Flow : DepositAll(f)
    BY <1>2, DepositAllOnce
  <1>3. CASE \E f \in Flow : RecoverAll(f)
    BY <1>3, RecoverAllOnce
  <1>4. CASE \E f \in Flow : Continue(f)
    BY <1>4, ContinueOnce, DepositAllOnce
  <1>5. CASE \E f \in Flow : LedgerStep(f)
    BY <1>5, LedgerStepOnce
  <1>6. CASE \E fee \in AdminFees : SetFee(fee)
    BY <1>6, SetFeeOnce
  <1>7. CASE LedgerFeeChanges
    BY <1>7, FeeIsOne DEF LedgerFeeChanges
  <1>8. CASE Tick \/ UNCHANGED vars
    <2>1. UNCHANGED << flows, recovery, ledger, requests >>
      BY <1>8 DEF Tick, vars, canister, history
    <2>2. (\A f \in Flow : FlowOnce(flows'[f])) /\ \A t \in recovery' : StepOf(t)
      BY <2>1 DEF OnceInv
    <2> QED
      BY <2>1, <2>2, CanisterKeepsOnce
  <1> QED
    BY <1>1, <1>2, <1>3, <1>4, <1>5, <1>6, <1>7, <1>8 DEF Next

(***************************************************************************)
(* The inductive invariant of a terminal and its ledger: what is kept or   *)
(* under way is a step of a request, the blocks of the ledger are those    *)
(* steps, and an interim account is full between its two.                  *)
(***************************************************************************)
THEOREM OnceInvariant ==
  ASSUME OneFee, DistinctAmounts
  PROVE  Spec => [](TerminalInv /\ OnceInv)
  <1>1. TerminalInv /\ OnceInv /\ [Next]_vars => OnceInv'
    BY OnceInvNext
  <1> QED
    BY <1>1, OnceInvInit, TerminalInvInit, TerminalInvNext, PTL DEF Spec

(***************************************************************************)
(* No step of a transfer is executed twice and nothing is credited twice,  *)
(* for any number of concurrent calls, lost replies, retries and           *)
(* recoveries: with one fee of the ledger, whatever fee the canister       *)
(* starts with, and with amounts that differ.                              *)
(***************************************************************************)
THEOREM StepsAreExecutedOnce ==
  ASSUME OneFee, DistinctAmounts
  PROVE  Spec => []ExactlyOnce
  <1>1. TerminalInv /\ OnceInv => ExactlyOnce
    <2> SUFFICES ASSUME TerminalInv, OnceInv, NEW m \in DOMAIN requests
                 PROVE  /\ \A kind \in {"main", "deposit", "interim"} : Cardinality(BlocksOf(m, kind)) <= 1
                        /\ Len(credits[m]) <= 1
      BY DEF ExactlyOnce
    <2>1. m \in DOMAIN credits
      BY DEF TerminalInv, HistoryInv
    <2>2. Len(credits[m]) <= 1
      BY <2>1 DEF TerminalInv, OwnerInv
    <2>3. ASSUME NEW kind \in {"main", "deposit", "interim"} PROVE Cardinality(BlocksOf(m, kind)) <= 1
      <3>1. CASE kind = "interim"
        BY <3>1, AtMostOne DEF OnceInv, InterimInv
      <3>2. CASE kind # "interim"
        <4>1. \A b \in BlocksOf(m, kind) : b = FirstBlock(m)
          BY <3>2, RequestShape DEF OnceInv, BlocksInv, BlocksOf
        <4>2. \A b, c \in BlocksOf(m, kind) : b = c
          BY <4>1
        <4> QED
          BY <4>2, AtMostOne
      <3> QED
        BY <3>1, <3>2
    <2> QED
      BY <2>2, <2>3
  <1> QED
    BY <1>1, OnceInvariant, PTL
-----------------------------------------------------------------------------
(* What the canister owes *)

\* The sums when one of the numbers changes, and when one is added
LEMMA AddsChanged ==
  ASSUME NEW n \in Nat, NEW a \in [1 .. n -> Nat], NEW b \in [1 .. n -> Nat], NEW m \in 1 .. n,
         \A k \in 1 .. n : k # m => a[k] = b[k], NEW sums, Adds(sums, a, n)
  PROVE  \E new : Adds(new, b, n) /\ new[n] = sums[n] - a[m] + b[m]
  <1>1. PICK x \in Nat, y \in Nat : x = a[m] /\ y = b[m]
    OBVIOUS
  <1>2. PICK new : new = [k \in 0 .. n |-> IF k < m THEN sums[k] ELSE sums[k] - x + y]
    OBVIOUS
  <1>3. /\ \A k \in 0 .. n : sums[k] \in Nat
        /\ sums[0] = 0
        /\ \A k \in 1 .. n : sums[k] = sums[k - 1] + a[k]
        /\ \A j, k \in 0 .. n : j <= k => sums[j] <= sums[k]
    BY DEF Adds
  <1>4. \A k \in 0 .. n : new[k] = IF k < m THEN sums[k] ELSE sums[k] - x + y
    BY <1>2
  <1>5. \A k \in 0 .. n : m <= k => sums[k] >= sums[m - 1] + x
    <2>1. sums[m] = sums[m - 1] + x
      BY <1>1, <1>3
    <2>2. m \in 0 .. n /\ m - 1 \in 0 .. n
      OBVIOUS
    <2> QED
      BY <1>3, <2>1, <2>2
  <1>6. \A k \in 0 .. n : new[k] \in Nat
    <2> SUFFICES ASSUME NEW k \in 0 .. n PROVE new[k] \in Nat
      OBVIOUS
    <2>1. m - 1 \in 0 .. n
      OBVIOUS
    <2>2. PICK now \in Nat, before \in Nat : now = sums[k] /\ before = sums[m - 1]
      BY <1>3, <2>1
    <2>3. CASE k < m
      BY <1>4, <2>2, <2>3
    <2>4. CASE ~ k < m
      <3>1. now >= before + x
        BY <1>5, <2>2, <2>4
      <3>2. now - x + y \in Nat
        BY <3>1
      <3> QED
        BY <1>4, <2>2, <2>4, <3>2
    <2> QED
      BY <2>3, <2>4
  <1>7. new[0] = 0
    BY <1>3, <1>4
  <1>8. \A k \in 1 .. n : new[k] = new[k - 1] + b[k]
    <2> SUFFICES ASSUME NEW k \in 1 .. n PROVE new[k] = new[k - 1] + b[k]
      OBVIOUS
    <2>1. k \in 0 .. n /\ k - 1 \in 0 .. n
      OBVIOUS
    <2>2. PICK now \in Nat, before \in Nat : now = sums[k] /\ before = sums[k - 1]
      BY <1>3, <2>1
    <2>3. now = before + a[k] /\ a[k] \in Nat /\ b[k] \in Nat
      BY <1>3, <2>2
    <2>4. CASE k < m
      <3>1. new[k] = now /\ new[k - 1] = before /\ a[k] = b[k]
        BY <1>4, <2>1, <2>2, <2>4
      <3> QED
        BY <2>3, <3>1
    <2>5. CASE k = m
      <3>1. new[k] = now - x + y /\ new[k - 1] = before
        BY <1>4, <2>1, <2>2, <2>5
      <3> QED
        BY <1>1, <2>2, <2>3, <2>5, <3>1
    <2>6. CASE k > m
      <3>1. new[k] = now - x + y /\ new[k - 1] = before - x + y /\ a[k] = b[k]
        BY <1>4, <2>1, <2>2, <2>6
      <3>2. PICK z \in Nat : z = b[k] /\ now = before + z
        BY <2>3, <3>1
      <3>3. now - x + y = (before - x + y) + z
        BY <3>2
      <3> QED
        BY <3>1, <3>2, <3>3
    <2> QED
      BY <2>4, <2>5, <2>6
  <1>9. \A j, k \in 0 .. n : j <= k => new[j] <= new[k]
    <2> SUFFICES ASSUME NEW j \in 0 .. n, NEW k \in 0 .. n, j <= k PROVE new[j] <= new[k]
      OBVIOUS
    <2>1. PICK sj \in Nat, sk \in Nat : sj = sums[j] /\ sk = sums[k] /\ sj <= sk
      BY <1>3
    <2>2. CASE k < m
      BY <1>4, <2>1, <2>2
    <2>3. CASE j < m /\ ~ k < m
      <3>1. m - 1 \in 0 .. n /\ j <= m - 1
        BY <2>3
      <3>2. PICK sm \in Nat : sm = sums[m - 1]
        BY <1>3, <3>1
      <3>3. sj <= sm /\ sk >= sm + x
        BY <1>3, <1>5, <2>1, <2>3, <3>1, <3>2
      <3>4. new[j] = sj /\ new[k] = sk - x + y
        BY <1>4, <2>1, <2>3
      <3>5. sj <= sk - x + y
        BY <3>3
      <3> QED
        BY <3>4, <3>5
    <2>4. CASE ~ j < m /\ ~ k < m
      <3>1. new[j] = sj - x + y /\ new[k] = sk - x + y
        BY <1>4, <2>1, <2>4
      <3> QED
        BY <1>1, <2>1, <3>1
    <2> QED
      BY <2>2, <2>3, <2>4
  <1>10. new \in [0 .. n -> Nat]
    BY <1>2, <1>6
  <1>11. new[n] = sums[n] - a[m] + b[m]
    BY <1>1, <1>4
  <1> QED
    BY <1>7, <1>8, <1>9, <1>10, <1>11 DEF Adds

LEMMA AddsOneMore ==
  ASSUME NEW n \in Nat, NEW a \in [1 .. n -> Nat], NEW b \in [1 .. (n + 1) -> Nat],
         \A k \in 1 .. n : a[k] = b[k], NEW sums, Adds(sums, a, n)
  PROVE  \E new : Adds(new, b, n + 1) /\ new[n + 1] = sums[n] + b[n + 1]
  <1>1. PICK x \in Nat : x = b[n + 1]
    OBVIOUS
  <1>2. PICK new : new = [k \in 0 .. (n + 1) |-> IF k = n + 1 THEN sums[n] + x ELSE sums[k]]
    OBVIOUS
  <1>3. /\ \A k \in 0 .. n : sums[k] \in Nat
        /\ sums[0] = 0
        /\ \A k \in 1 .. n : sums[k] = sums[k - 1] + a[k]
        /\ \A j, k \in 0 .. n : j <= k => sums[j] <= sums[k]
    BY DEF Adds
  <1>4. new[n + 1] = sums[n] + x /\ sums[n] \in Nat /\ \A k \in 0 .. n : new[k] = sums[k]
    BY <1>2, <1>3
  <1>5. \A k \in 0 .. (n + 1) : k = n + 1 \/ k \in 0 .. n
    OBVIOUS
  <1>6. new \in [0 .. (n + 1) -> Nat]
    BY <1>2, <1>3, <1>4
  <1>7. \A k \in 1 .. (n + 1) : new[k] = new[k - 1] + b[k]
    <2> SUFFICES ASSUME NEW k \in 1 .. (n + 1) PROVE new[k] = new[k - 1] + b[k]
      OBVIOUS
    <2>1. CASE k = n + 1
      <3>1. k - 1 = n /\ n \in 0 .. n
        BY <2>1
      <3> QED
        BY <1>1, <1>4, <2>1, <3>1
    <2>2. CASE k # n + 1
      <3>1. k \in 1 .. n /\ k \in 0 .. n /\ k - 1 \in 0 .. n
        BY <2>2
      <3> QED
        BY <1>3, <1>4, <3>1
    <2> QED
      BY <2>1, <2>2
  <1>8. \A j, k \in 0 .. (n + 1) : j <= k => new[j] <= new[k]
    <2> SUFFICES ASSUME NEW j \in 0 .. (n + 1), NEW k \in 0 .. (n + 1), j <= k PROVE new[j] <= new[k]
      OBVIOUS
    <2>1. CASE k \in 0 .. n
      <3>1. j \in 0 .. n
        BY <2>1
      <3> QED
        BY <1>3, <1>4, <2>1, <3>1
    <2>2. CASE k = n + 1 /\ j \in 0 .. n
      <3>1. PICK sj \in Nat, sn \in Nat : sj = sums[j] /\ sn = sums[n] /\ sj <= sn
        <4>1. n \in 0 .. n /\ j <= n
          BY <2>2
        <4> QED
          BY <1>3, <2>2, <4>1
      <3>2. sj <= sn + x
        BY <3>1
      <3> QED
        BY <1>4, <2>2, <3>1, <3>2
    <2>3. CASE k = n + 1 /\ j = n + 1
      BY <1>4, <2>3
    <2> QED
      BY <1>5, <2>1, <2>2, <2>3
  <1>9. new[0] = 0
    BY <1>3, <1>4
  <1>10. Adds(new, b, n + 1)
    BY <1>6, <1>7, <1>8, <1>9 DEF Adds
  <1> QED
    BY <1>1, <1>4, <1>10

\* What is owed for a request is a number of tokens.
LEMMA OwedTyped ==
  ASSUME TerminalInv
  PROVE  \A m \in DOMAIN requests : Owed(m) \in Nat /\ Net(m) \in Nat /\ requests[m].amount \in Nat
  <1> SUFFICES ASSUME NEW m \in DOMAIN requests
               PROVE  Owed(m) \in Nat /\ Net(m) \in Nat /\ requests[m].amount \in Nat
    OBVIOUS
  <1>1. requests[m] \in TransferRecord /\ ledger_fee \in Nat
    BY LedgerTyped
  <1>2. WithFee(requests[m], ledger_fee) \in TransferRecord
    BY <1>1, TransferTypes
  <1>3. Net(m) \in Nat /\ requests[m].amount \in Nat
    BY <1>1, <1>2, TransferTypes DEF Net
  <1> QED
    BY <1>3 DEF Owed

\* A step that changes what is owed for one request at most, and the main
\* account and the balance by as much
LEMMA CoveredKept ==
  ASSUME TerminalInv, Covered, UNCHANGED requests, NEW m \in DOMAIN requests, Owed(m)' \in Nat,
         \A k \in DOMAIN requests : k # m => Owed(k)' = Owed(k),
         balance' \in Nat, BalanceOf(Own("main"))' \in Nat,
         BalanceOf(Own("main"))' + balance + Owed(m) = BalanceOf(Own("main")) + balance' + Owed(m)'
  PROVE  Covered'
  <1>1. PICK l \in Nat : l = Len(requests) /\ DOMAIN requests = 1 .. l
    BY DEF TerminalInv, HistoryInv
  <1>2. PICK old, new : old = AllOwed /\ new = AllOwed'
    OBVIOUS
  <1>3. \A k \in 1 .. l : old[k] = Owed(k) /\ new[k] = Owed(k)'
    BY <1>1, <1>2 DEF AllOwed
  <1>4. old \in [1 .. l -> Nat] /\ new \in [1 .. l -> Nat]
    <2>1. \A k \in 1 .. l : Owed(k) \in Nat /\ Owed(k)' \in Nat
      BY <1>1, OwedTyped
    <2> QED
      BY <1>1, <1>2, <2>1 DEF AllOwed
  <1>5. PICK sums : Adds(sums, old, l) /\ BalanceOf(Own("main")) = balance + sums[l]
    BY <1>1, <1>2 DEF Covered
  <1>6. \A k \in 1 .. l : k # m => old[k] = new[k]
    BY <1>1, <1>3
  <1>7. PICK then : Adds(then, new, l) /\ then[l] = sums[l] - old[m] + new[m]
    <2>1. m \in 1 .. l
      BY <1>1
    <2>2. \E then : Adds(then, new, l) /\ then[l] = sums[l] - old[m] + new[m]
      BY <1>4, <1>5, <1>6, <2>1, AddsChanged
    <2> QED
      BY <2>2
  <1>8. PICK total \in Nat, was \in Nat, is \in Nat :
          total = sums[l] /\ was = Owed(m) /\ is = Owed(m)' /\ old[m] = was /\ new[m] = is
    BY <1>1, <1>3, <1>5, OwedTyped DEF Adds
  <1>9. balance \in Nat /\ BalanceOf(Own("main")) \in Nat
    BY LedgerTyped DEF TerminalInv, CanisterInv
  <1>10. BalanceOf(Own("main"))' = balance' + (total - was + is)
    BY <1>5, <1>8, <1>9
  <1>11. Adds(then, AllOwed', Len(requests')) /\ BalanceOf(Own("main"))' = balance' + then[Len(requests')]
    BY <1>1, <1>2, <1>7, <1>8, <1>10
  <1> QED
    BY <1>11 DEF Covered

\* A step that changes none of them
LEMMA CoveredSame ==
  ASSUME TerminalInv, Covered, UNCHANGED << requests, balance >>,
         \A k \in DOMAIN requests : Owed(k)' = Owed(k), BalanceOf(Own("main"))' = BalanceOf(Own("main"))
  PROVE  Covered'
  <1>1. AllOwed' = AllOwed
    BY DEF AllOwed
  <1> QED
    BY <1>1 DEF Covered

\* A step credits nothing, or what was owed for a request.
Pays == NoCredit \/ \E m \in DOMAIN requests : credits[m] = << >> /\ Credit(m, Owed(m))

LEMMA PaysCovered ==
  ASSUME TerminalInv, Covered, UNCHANGED << ledger, requests >>, Pays
  PROVE  Covered'
  <1>1. funds' = funds /\ blocks' = blocks /\ ledger_fee' = ledger_fee /\ requests' = requests
    BY DEF ledger
  <1>2. \A k : (Started(k)' <=> Started(k)) /\ Net(k)' = Net(k)
    BY <1>1 DEF Started, FirstBlock, Net
  <1>3. \A k : credits'[k] = credits[k] => Owed(k)' = Owed(k)
    BY <1>1, <1>2 DEF Owed
  <1>4. BalanceOf(Own("main"))' = BalanceOf(Own("main")) /\ BalanceOf(Own("main")) \in Nat
    BY <1>1, LedgerTyped DEF BalanceOf, Own
  <1>5. CASE NoCredit
    <2>1. \A k \in DOMAIN requests : Owed(k)' = Owed(k)
      BY <1>3, <1>5 DEF NoCredit
    <2> QED
      BY <1>1, <1>4, <1>5, <2>1, CoveredSame DEF NoCredit
  <1>6. CASE ~ NoCredit
    <2>1. PICK m \in DOMAIN requests : credits[m] = << >> /\ Credit(m, Owed(m))
      BY <1>6 DEF Pays
    <2>2. PICK amount \in Nat : amount = Owed(m)
      BY OwedTyped
    <2>3. balance' = balance + amount /\ credits' = [credits EXCEPT ![m] = Append(@, amount)] /\ balance \in Nat
      BY <2>1, <2>2 DEF Credit, TerminalInv, CanisterInv
    <2>4. credits \in Seq(Seq(Nat)) /\ DOMAIN credits = DOMAIN requests
      BY DEF TerminalInv, HistoryInv
    <2>5. credits'[m] = Append(<< >>, amount) /\ \A k \in DOMAIN requests : k # m => credits'[k] = credits[k]
      BY <2>1, <2>3, <2>4
    <2>6. credits'[m] # << >>
      <3>1. Len(Append(<< >>, amount)) = 1 /\ Len(<< >>) = 0
        <4>1. << >> \in Seq(Nat)
          OBVIOUS
        <4> QED
          BY <4>1
      <3> QED
        BY <2>5, <3>1
    <2>7. Owed(m)' = 0
      BY <2>6 DEF Owed
    <2>8. \A k \in DOMAIN requests : k # m => Owed(k)' = Owed(k)
      BY <1>3, <2>5
    <2>9. balance' \in Nat /\ BalanceOf(Own("main"))' \in Nat
      BY <1>4, <2>3
    <2>10. BalanceOf(Own("main"))' + balance + Owed(m) = BalanceOf(Own("main")) + balance' + Owed(m)'
      BY <1>4, <2>2, <2>3, <2>7
    <2> QED
      BY <1>1, <2>7, <2>8, <2>9, <2>10, CoveredKept
  <1> QED
    BY <1>5, <1>6

-----------------------------------------------------------------------------
(* Steps of the canister, which only pays what it owes *)

LEMMA CanisterTells ==
  ASSUME TerminalInv, SolventInv, UNCHANGED << ledger, clock, requests >>, Pays, saved_fee' >= ledger_fee,
         \A g \in Flow : FlowTells(flows'[g]), \A t \in recovery' : InOrder(t)
  PROVE  SolventInv'
  <1>1. blocks' = blocks /\ ledger_fee' = ledger_fee /\ requests' = requests /\ clock' = clock
    BY DEF ledger
  <1>2. \A m : (Started(m)' <=> Started(m)) /\ BlocksOf(m, "interim")' = BlocksOf(m, "interim")
    BY <1>1 DEF Started, FirstBlock, BlocksOf
  <1>3. \A t : InOrder(t)' <=> InOrder(t)
    BY <1>2 DEF InOrder
  <1>4. \A r : FlowTells(r)' <=> FlowTells(r)
    BY <1>1, <1>2, <1>3 DEF FlowTells, OwnMemo, Refuted, Confirmed
  <1>5. (\A f \in Flow : FlowTells(flows[f]))' /\ (\A t \in recovery : InOrder(t))'
    BY <1>3, <1>4
  <1>6. PaidInv'
    BY <1>1 DEF SolventInv, PaidInv
  <1>7. Covered'
    BY PaysCovered DEF SolventInv
  <1> QED
    BY <1>5, <1>6, <1>7 DEF SolventInv

\* The same, when only flow f moves
LEMMA FlowKeepsTelling ==
  ASSUME TerminalInv, SolventInv, UNCHANGED << ledger, clock, requests >>, Pays, saved_fee' >= ledger_fee,
         NEW f \in Flow, NEW n, flows' = [flows EXCEPT ![f] = n], FlowTells(n), \A t \in recovery' : InOrder(t)
  PROVE  SolventInv'
  <1>1. flows \in [Flow -> FlowRecord] /\ \A g \in Flow : FlowTells(flows[g])
    BY DEF TerminalInv, CanisterInv, SolventInv
  <1>2. \A g \in Flow : flows'[g] = IF g = f THEN n ELSE flows[g]
    BY <1>1
  <1>3. \A g \in Flow : FlowTells(flows'[g])
    BY <1>1, <1>2
  <1> QED
    BY <1>3, CanisterTells

\* A flow that awaits a reply, and is not at the first attempt of a first step
LEMMA WaitingTells ==
  ASSUME NEW n, n.reply = NoReply, OwnMemo(n) => InOrder(n.tx), \A t \in n.queue : InOrder(t),
         n.call = "transfer" => n.tx.stage = "Second" \/ n.recovering = TRUE,
         n.call = "interim_balance" => n.tx.stage # "Single",
         n.call = "deposit_balance" => n.fee >= ledger_fee,
         n.call \in {"transfer", "minting_account"} =>
           /\ clock - n.since <= MaxLatency
           /\ n.tx.stage # "Second" => n.since - n.tx.created_at < DedupPeriod - TxWindow
  PROVE  FlowTells(n)
  <1>1. ~ Confirmed(n)
    BY DEF Confirmed, NoReply
  <1>2. ~ Refuted(n)
    BY DEF Refuted, NoReply
  <1> QED
    BY <1>1, <1>2 DEF FlowTells

\* What is known of times
LEMMA Times ==
  ASSUME TerminalInv
  PROVE  /\ clock \in Nat /\ DedupPeriod \in Nat /\ TxWindow \in Nat /\ TxWindow < DedupPeriod
         /\ MaxLatency \in Nat /\ MaxLatency <= TxWindow /\ clock - clock = 0 /\ clock - clock <= MaxLatency
  <1>1. clock \in Nat
    BY LedgerTyped
  <1> QED
    BY <1>1, PeriodsAssumption

\* The recovery of a transfer, first for recover_all
LEMMA RecoverTells ==
  ASSUME TerminalInv, NEW f \in Flow, NEW t \in TransferRecord, ~ TooOld(t), InOrder(t), NEW fee \in Nat,
         NEW rest, \A u \in rest : InOrder(u), NEW n, n = [Recover(f, t) EXCEPT !.fee = fee, !.queue = rest]
  PROVE  FlowTells(n)
  <1>1. flows[f] \in FlowRecord
    BY Typed
  <1>2. CASE CanDeduplicate(t)
    <2>1. n = [Send(f, t, NRetries, TRUE) EXCEPT !.fee = fee, !.queue = rest]
      BY <1>2 DEF Recover
    <2>2. n.call = "transfer" /\ n.reply = NoReply /\ n.tx = t /\ n.since = clock /\ n.queue = rest /\ n.recovering = TRUE
      BY <1>1, <2>1 DEF Send, FlowRecord
    <2>3. clock - n.since <= MaxLatency /\ n.since - n.tx.created_at < DedupPeriod - TxWindow
      BY <1>2, <2>2, Times DEF CanDeduplicate
    <2> QED
      BY <2>2, <2>3, WaitingTells
  <1>3. CASE ~ CanDeduplicate(t)
    <2>1. n = [[flows[f] EXCEPT !.call = "interim_balance", !.reply = NoReply, !.tx = t]
                 EXCEPT !.fee = fee, !.queue = rest]
      BY <1>3 DEF Recover
    <2>2. n.call = "interim_balance" /\ n.reply = NoReply /\ n.tx = t /\ n.queue = rest
      BY <1>1, <2>1 DEF FlowRecord
    <2>3. t.stage # "Single"
      BY <1>3 DEF TooOld
    <2> QED
      BY <2>2, <2>3, WaitingTells
  <1> QED
    BY <1>2, <1>3

LEMMA IdleTells == FlowTells(Idle)
  <1>1. Idle.reply = NoReply /\ Idle.call = "None" /\ Idle.queue = {} /\ ~ OwnMemo(Idle)
    BY IdleFlow DEF Idle
  <1> QED
    BY <1>1, WaitingTells

LEMMA ReturnTells ==
  ASSUME TerminalInv, SolventInv, UNCHANGED << ledger, clock, requests >>, Pays, saved_fee' >= ledger_fee,
         NEW f \in Flow, NEW fee \in Nat, NEW memo, NEW result \in Outcome, Return(f, fee, memo, result),
         \A t \in recovery' : InOrder(t)
  PROVE  SolventInv'
  <1>1. PICK n : Ended(f, fee, n) /\ flows' = [flows EXCEPT ![f] = n]
    BY ReturnEnds
  <1>2. FlowTells(n)
    <2>1. CASE n = Idle
      BY <2>1, IdleTells
    <2>2. CASE n # Idle
      <3>1. PICK t \in flows[f].queue, rest \in SUBSET flows[f].queue :
              ~ TooOld(t) /\ n = [Recover(f, t) EXCEPT !.fee = fee, !.queue = rest]
        BY <1>1, <2>2 DEF Ended
      <3>2. /\ \A u \in flows[f].queue : u \in TransferRecord /\ InOrder(u)
        BY Typed DEF SolventInv, FlowTells
      <3> QED
        BY <3>1, <3>2, RecoverTells
    <2> QED
      BY <2>1, <2>2
  <1> QED
    BY <1>1, <1>2, FlowKeepsTelling

\* What is owed for the transfer of a flow, which has not been credited
LEMMA OwnOwed ==
  ASSUME TerminalInv, OnceInv, NEW f \in Flow, OwnMemo(flows[f])
  PROVE  LET tx == flows[f].tx
         IN  /\ tx.memo \in DOMAIN requests /\ credits[tx.memo] = << >>
             /\ tx.stage = "Second" => tx.operation = "CreditOnError"
             /\ tx.operation = "CreditOnSuccess" /\ Started(tx.memo) => Owed(tx.memo) = AmountMinusFee(tx)
             /\ tx.operation # "CreditOnSuccess" /\ tx.stage # "Second" /\ ~ Started(tx.memo) =>
                  Owed(tx.memo) = tx.amount
  <1> DEFINE tx == flows[f].tx
  <1>1. PICK m : m = tx.memo
    OBVIOUS
  <1>2. tx \in TransferRecord /\ requests[m] \in TransferRecord /\ m \in DOMAIN requests /\ StepOf(tx) /\ m \in Nat
    BY <1>1, OwnStep, Typed
  <1>3. credits[m] = << >>
    <2>1. HeldBy(f, m)
      BY <1>1, HeldByHolds DEF Holds
    <2> QED
      BY <1>2, <2>1 DEF TerminalInv, OwnerInv, Live
  <1>4. /\ tx.operation = requests[m].operation
        /\ requests[m].stage = IF requests[m].operation = "CreditOnSuccess" THEN "Single" ELSE "First"
    BY <1>1, <1>2, RequestShape DEF StepOf
  <1>5. tx.stage = "Second" => tx.operation # "CreditOnSuccess"
    BY <1>1, <1>2, <1>4 DEF StepOf
  <1>6. tx.operation \in {"CreditOnSuccess", "CreditOnError"}
    BY <1>2 DEF TransferRecord, Operation
  <1>7. ASSUME tx.operation = "CreditOnSuccess", Started(m) PROVE Owed(m) = AmountMinusFee(tx)
    <2>1. tx.amount = requests[m].amount /\ tx.fee = ledger_fee
      BY <1>1, <1>2, <1>5, <1>7 DEF StepOf
    <2>2. AmountMinusFee(tx) = Net(m)
      BY <1>2, <2>1 DEF Net, AmountMinusFee, WithFee, TransferRecord
    <2> QED
      BY <1>3, <1>4, <1>7, <2>2 DEF Owed
  <1>8. ASSUME tx.operation # "CreditOnSuccess", tx.stage # "Second", ~ Started(m) PROVE Owed(m) = tx.amount
    <2>1. tx.amount = requests[m].amount
      BY <1>1, <1>2, <1>8 DEF StepOf
    <2> QED
      BY <1>3, <1>4, <1>8, <2>1 DEF Owed
  <1> QED
    BY <1>1, <1>2, <1>3, <1>5, <1>6, <1>7, <1>8

\* What is known of a flow's transfer and of the list
LEMMA OwnTells ==
  ASSUME SolventInv, NEW f \in Flow
  PROVE  /\ FlowTells(flows[f]) /\ (OwnMemo(flows[f]) => InOrder(flows[f].tx))
         /\ \A t \in flows[f].queue : InOrder(t)
         /\ \A t \in recovery : InOrder(t)
         /\ saved_fee >= ledger_fee
  BY DEF SolventInv, FlowTells, PaidInv

LEMMA CompleteTells ==
  ASSUME TerminalInv, OnceInv, SolventInv, UNCHANGED << ledger, clock, requests >>, NEW f \in Flow,
         OwnMemo(flows[f]), NEW n \in 1 .. NRetries, Complete(f, flows[f].tx, n),
         flows[f].tx.stage # "Second" => Started(flows[f].tx.memo)
  PROVE  SolventInv'
  <1> DEFINE tx == flows[f].tx
             second == NextStep(tx, clock)
  <1>1. flows[f] \in FlowRecord /\ tx \in TransferRecord /\ clock \in Nat /\ flows[f].fee \in Nat
    BY Typed
  <1>2. saved_fee' >= ledger_fee /\ \A t \in recovery' : InOrder(t)
    BY OwnTells DEF Complete
  <1>3. Pays
    <2>1. NoCredit \/ (tx.operation = "CreditOnSuccess" /\ Credit(tx.memo, AmountMinusFee(tx)))
      BY DEF Complete
    <2> QED
      BY <2>1, OwnOwed DEF Pays
  <1>4. CASE tx.stage = "First" /\ Valid(second)
    <2>1. PICK r : r = Send(f, second, n, FALSE)
      OBVIOUS
    <2>2. flows' = [flows EXCEPT ![f] = r]
      BY <1>4, <2>1 DEF Complete
    <2>3. r.reply = NoReply /\ r.call = "transfer" /\ r.tx = second /\ r.queue = flows[f].queue /\ r.since = clock
      BY <1>1, <2>1 DEF Send, FlowRecord
    <2>4. second.stage = "Second"
      BY <1>1 DEF NextStep, TransferRecord
    <2>5. InOrder(r.tx) /\ \A t \in r.queue : InOrder(t)
      BY <2>3, <2>4, OwnTells DEF InOrder
    <2>6. FlowTells(r)
      BY <2>3, <2>4, <2>5, Times, WaitingTells
    <2> QED
      BY <1>2, <1>3, <2>2, <2>6, FlowKeepsTelling
  <1>5. CASE ~ (tx.stage = "First" /\ Valid(second))
    <2>1. \E result \in Outcome : Return(f, flows[f].fee, tx.memo, result)
      BY <1>5 DEF Complete, Outcome
    <2> QED
      BY <1>1, <1>2, <1>3, <2>1, ReturnTells
  <1> QED
    BY <1>4, <1>5

LEMMA PushedInOrder ==
  ASSUME NEW list, \A t \in list : InOrder(t), NEW tx, InOrder(tx)
  PROVE  \A t \in Pushed(list, tx) : InOrder(t)
  BY DEF Pushed

LEMMA RejectTells ==
  ASSUME TerminalInv, OnceInv, SolventInv, UNCHANGED << ledger, clock, requests >>, NEW f \in Flow,
         OwnMemo(flows[f]), Reject(f, flows[f].tx),
         flows[f].tx.stage # "Second" => ~ Started(flows[f].tx.memo)
  PROVE  SolventInv'
  <1> DEFINE tx == flows[f].tx
  <1>1. flows[f].fee \in Nat
    BY Typed
  <1>2. recovery' = Pushed(recovery, tx) \/ recovery' = recovery
    BY DEF Reject
  <1>3. saved_fee' >= ledger_fee /\ \A t \in recovery' : InOrder(t)
    BY <1>2, OwnTells, PushedInOrder DEF Reject
  <1>4. Pays
    <2>1. NoCredit \/ (tx.stage # "Second" /\ tx.operation = "CreditOnError" /\ Credit(tx.memo, tx.amount))
      BY DEF Reject
    <2> QED
      BY <2>1, OwnOwed DEF Pays
  <1>5. \E result \in Outcome : Return(f, flows[f].fee, tx.memo, result)
    BY DEF Reject, Outcome
  <1> QED
    BY <1>1, <1>3, <1>4, <1>5, ReturnTells

LEMMA RetryTells ==
  ASSUME TerminalInv, SolventInv, UNCHANGED << ledger, clock, requests >>, NEW f \in Flow,
         flows[f].call \in {"transfer", "minting_account"}, NEW fee \in Nat, NEW tx,
         tx.stage = flows[f].tx.stage, tx.memo = flows[f].tx.memo, tx.created_at = flows[f].tx.created_at,
         NEW n, NEW list, \A t \in list : InOrder(t), Retry(f, fee, tx, n, list), saved_fee' >= ledger_fee
  PROVE  SolventInv'
  <1>1. flows[f] \in FlowRecord /\ OwnMemo(flows[f])
    BY Typed DEF OwnMemo
  <1>2. InOrder(tx)
    BY <1>1, OwnTells DEF InOrder
  <1>3. Pays
    BY DEF Retry, Pays
  <1>4. CASE n = 0
    <2>1. recovery' = Pushed(list, tx) /\ Return(f, fee, tx.memo, "Recoverable") /\ "Recoverable" \in Outcome
      BY <1>4 DEF Retry, Outcome
    <2> QED
      BY <1>2, <1>3, <2>1, PushedInOrder, ReturnTells
  <1>5. CASE n # 0
    <2>1. PICK r : r = [Send(f, tx, n, TRUE) EXCEPT !.fee = fee, !.since = flows[f].since]
      OBVIOUS
    <2>2. recovery' = list /\ flows' = [flows EXCEPT ![f] = r]
      BY <1>5, <2>1 DEF Retry
    <2>3. /\ r.call = "transfer" /\ r.tx = tx /\ r.reply = NoReply /\ r.queue = flows[f].queue
          /\ r.since = flows[f].since /\ r.recovering = TRUE
      BY <1>1, <2>1 DEF Send, FlowRecord
    <2>4. /\ clock - flows[f].since <= MaxLatency
          /\ flows[f].tx.stage # "Second" =>
               flows[f].since - flows[f].tx.created_at < DedupPeriod - TxWindow
      BY OwnTells DEF FlowTells
    <2>5. FlowTells(r)
      BY <1>2, <2>3, <2>4, OwnTells, WaitingTells
    <2> QED
      BY <1>3, <2>2, <2>5, FlowKeepsTelling
  <1> QED
    BY <1>4, <1>5

\* A list that is rewritten
LEMMA RewrittenInOrder ==
  ASSUME TerminalInv, SolventInv, NEW fee \in Nat, NEW list \in Rewritten(fee)
  PROVE  \A t \in list : InOrder(t)
  <1> SUFFICES ASSUME NEW t \in list PROVE InOrder(t)
    OBVIOUS
  <1>1. PICK u \in recovery : t = ResetTs(WithFee(u, fee))
    BY RewrittenList
  <1>2. u \in TransferRecord /\ InOrder(u)
    BY ListTyped DEF SolventInv
  <1>3. t.stage = u.stage /\ t.memo = u.memo
    BY <1>1, <1>2 DEF ResetTs, WithFee, TransferRecord
  <1> QED
    BY <1>2, <1>3 DEF InOrder

LEMMA UpdateConfigTells ==
  ASSUME TerminalInv, SolventInv, UNCHANGED << ledger, clock, requests >>, NEW f \in Flow,
         flows[f].call \in {"transfer", "minting_account"},
         UpdateConfigAndRetry(f, ledger_fee, flows[f].retries - 1)
  PROVE  SolventInv'
  <1>1. PICK list \in Rewritten(ledger_fee) :
          Retry(f, ledger_fee, WithFee(flows[f].tx, ledger_fee), flows[f].retries - 1, list)
    BY DEF UpdateConfigAndRetry
  <1>2. flows[f].tx \in TransferRecord /\ ledger_fee \in Nat
    BY Typed, LedgerTyped
  <1>3. PICK tx : tx = WithFee(flows[f].tx, ledger_fee)
    OBVIOUS
  <1>4. tx.stage = flows[f].tx.stage /\ tx.memo = flows[f].tx.memo /\ tx.created_at = flows[f].tx.created_at
    BY <1>2, <1>3 DEF WithFee, TransferRecord
  <1>5. \A t \in list : InOrder(t)
    BY <1>1, <1>2, RewrittenInOrder
  <1>6. saved_fee' >= ledger_fee
    BY <1>2 DEF UpdateConfigAndRetry
  <1> QED
    BY <1>1, <1>2, <1>3, <1>4, <1>5, <1>6, RetryTells

LEMMA ContinueTells ==
  ASSUME TerminalInv, OnceInv, SolventInv, OneFee, NEW f \in Flow, Continue(f)
  PROVE  SolventInv' \/ OnDepositBalance(f)
  <1> DEFINE tx == flows[f].tx
  <1>1. /\ flows[f].retries \in 0 .. NRetries /\ CleanFlow(flows[f]) /\ flows[f] \in FlowRecord
        /\ flows[f].fee \in Nat /\ clock \in Nat
    BY Typed
  <1>2. NRetries \in 1 .. NRetries /\ ledger_fee # 0
    BY Constants, FeeIsOne
  <1>3. FlowTells(flows[f]) /\ saved_fee >= ledger_fee /\ \A t \in recovery : InOrder(t)
    BY OwnTells
  <1>4. CASE OnSuccess(f)
    <2>1. /\ flows[f].call = "transfer" /\ Complete(f, tx, flows[f].retries)
          /\ UNCHANGED << ledger, clock, requests >> /\ flows[f].reply.kind \in {"Ok", "Duplicate"}
      BY <1>4 DEF OnSuccess, OnTransfer, Replied
    <2>2. flows[f].retries \in 1 .. NRetries /\ OwnMemo(flows[f])
      BY <1>1, <2>1, Constants DEF CleanFlow, OwnMemo
    <2>3. tx.stage # "Second" => Started(tx.memo)
      BY <1>3, <2>1 DEF FlowTells, Confirmed
    <2> QED
      BY <2>1, <2>2, <2>3, CompleteTells
  <1>5. CASE OnUnknown(f)
    <2>1. /\ flows[f].call = "transfer" /\ UNCHANGED << ledger, clock, requests, saved_fee >>
          /\ Retry(f, flows[f].fee, tx, flows[f].retries - 1, recovery)
      BY <1>5 DEF OnUnknown, OnTransfer, Replied
    <2> QED
      BY <1>1, <1>3, <2>1, RetryTells
  <1>6. CASE OnWrongFee(f)
    <2>1. /\ flows[f].call = "transfer" /\ UNCHANGED << ledger, clock, requests >>
          /\ flows[f].reply.kind = "BadFee"
      BY <1>6 DEF OnWrongFee, OnTransfer, Replied
    <2>2. OwnMemo(flows[f])
      BY <2>1 DEF OwnMemo
    <2>3. flows[f].reply.value = ledger_fee
      BY <2>1, <2>2, OwnStep DEF TrueReply
    <2>4. CASE ledger_fee = flows[f].fee
      <3>1. /\ flows' = [flows EXCEPT ![f].call = "minting_account", ![f].reply = NoReply]
            /\ recovery' = recovery /\ saved_fee' = saved_fee /\ Pays
        BY <1>6, <2>3, <2>4 DEF OnWrongFee, Pays, NoCredit
      <3>2. PICK r : r = [flows[f] EXCEPT !.call = "minting_account", !.reply = NoReply]
        OBVIOUS
      <3>3. flows' = [flows EXCEPT ![f] = r]
        BY <3>1, <3>2
      <3>4. /\ r.call = "minting_account" /\ r.reply = NoReply /\ r.tx = tx /\ r.queue = flows[f].queue
            /\ r.since = flows[f].since
        BY <1>1, <3>2 DEF FlowRecord
      <3>5. FlowTells(r)
        BY <1>3, <2>1, <2>2, <3>4, WaitingTells DEF FlowTells
      <3> QED
        BY <1>3, <2>1, <3>1, <3>3, <3>5, FlowKeepsTelling
    <2>5. CASE ledger_fee # flows[f].fee
      <3>1. UpdateConfigAndRetry(f, ledger_fee, flows[f].retries - 1)
        BY <1>2, <1>6, <2>3, <2>5 DEF OnWrongFee
      <3> QED
        BY <2>1, <3>1, UpdateConfigTells
    <2> QED
      BY <2>4, <2>5
  <1>7. CASE OnRejected(f)
    <2>1. /\ flows[f].call = "transfer" /\ UNCHANGED << ledger, clock, requests >> /\ Reject(f, tx)
          /\ \/ flows[f].reply.kind \in {"InsufficientFunds", "TooOld"}
             \/ flows[f].reply.kind \in {"Duplicate", "Unavailable"} /\ ~ flows[f].recovering
      BY <1>7 DEF OnRejected, OnTransfer, Replied
    <2>2. tx.stage # "Second" => ~ Started(tx.memo)
      BY <1>3, <2>1 DEF FlowTells, Refuted
    <2> QED
      BY <2>1, <2>2, RejectTells DEF OwnMemo
  <1>8. CASE OnMintingAccount(f)
    <2>1. /\ flows[f].call = "minting_account" /\ UNCHANGED << ledger, clock, requests >>
          /\ UpdateConfigAndRetry(f, flows[f].fee, flows[f].retries - 1)
      BY <1>8 DEF OnMintingAccount, Replied
    <2>2. flows[f].fee = ledger_fee
      BY <2>1, OwnStep DEF TrueReply, OwnMemo
    <2> QED
      BY <2>1, <2>2, UpdateConfigTells
  <1>9. CASE OnInterimBalance(f)
    <2>1. /\ flows[f].call = "interim_balance" /\ UNCHANGED << ledger, clock, requests >>
          /\ RecoverOldTx(f, tx, flows[f].reply.value) /\ flows[f].reply.kind = "Value"
      BY <1>9 DEF OnInterimBalance, Replied
    <2>2. OwnMemo(flows[f])
      BY <2>1 DEF OwnMemo
    <2>3. CASE tx.stage = "First" /\ flows[f].reply.value = 0 /\ Reject(f, tx)
      <3>1. ~ Started(tx.memo)
        BY <1>3, <2>1, <2>3 DEF FlowTells, Refuted
      <3> QED
        BY <2>1, <2>2, <2>3, <3>1, RejectTells
    <2>4. CASE tx.stage = "First" /\ flows[f].reply.value # 0 /\ Complete(f, tx, NRetries)
      <3>1. Started(tx.memo)
        BY <2>1, <2>2, <2>4, OwnStep DEF TrueReply
      <3> QED
        BY <1>2, <2>1, <2>2, <2>4, <3>1, CompleteTells
    <2>5. CASE tx.stage = "Second" /\ Complete(f, tx, NRetries)
      BY <1>2, <2>1, <2>2, <2>5, CompleteTells
    <2>6. CASE /\ tx.stage = "Second" /\ recovery' = recovery /\ saved_fee' = saved_fee /\ NoCredit
               /\ flows' = [flows EXCEPT ![f] = Send(f, Renew(tx, clock), NRetries, TRUE)]
      <3>1. PICK r : r = Send(f, Renew(tx, clock), NRetries, TRUE)
        OBVIOUS
      <3>2. r.call = "transfer" /\ r.reply = NoReply /\ r.queue = flows[f].queue /\ r.since = clock
        BY <1>1, <3>1 DEF Send, FlowRecord
      <3>3. r.tx.stage = "Second"
        <4>1. r.tx = Renew(tx, clock) /\ tx \in TransferRecord
          BY <1>1, <3>1, Typed DEF Send, FlowRecord
        <4> QED
          BY <2>6, <4>1 DEF Renew, TransferRecord
      <3>4. FlowTells(r)
        BY <3>2, <3>3, OwnTells, Times, WaitingTells DEF InOrder
      <3> QED
        BY <1>3, <2>1, <2>6, <3>1, <3>4, FlowKeepsTelling DEF Pays
    <2> QED
      BY <2>1, <2>3, <2>4, <2>5, <2>6 DEF RecoverOldTx, NoCredit
  <1>10. CASE OnQueryFailed(f)
    <2>1. /\ UNCHANGED << ledger, clock, requests, recovery, saved_fee >> /\ Pays
          /\ flows' = [flows EXCEPT ![f] = Idle] \/ \E result \in Outcome : Return(f, flows[f].fee, tx.memo, result)
      BY <1>10 DEF OnQueryFailed, Pays, Outcome
    <2>2. CASE flows' = [flows EXCEPT ![f] = Idle]
      BY <1>3, <2>1, <2>2, IdleTells, FlowKeepsTelling
    <2>3. CASE \E result \in Outcome : Return(f, flows[f].fee, tx.memo, result)
      BY <1>1, <1>3, <2>1, <2>3, ReturnTells
    <2> QED
      BY <2>1, <2>2, <2>3
  <1> QED
    BY <1>4, <1>5, <1>6, <1>7, <1>8, <1>9, <1>10 DEF Continue

\* A new transfer has not been started, and the balance has paid for it.
LEMMA BeginTells ==
  ASSUME TerminalInv, OnceInv, SolventInv, NEW f \in Flow, flows[f].call \in {"None", "deposit_balance"},
         NEW op \in Operation, NEW amount \in Nat, NEW fee \in Nat, fee >= ledger_fee,
         NEW tx, tx = NewTransfer(op, amount, fee, clock, Len(requests) + 1), Begin(f, tx),
         \/ op = "CreditOnSuccess" /\ balance' = balance
         \/ op = "CreditOnError" /\ amount <= balance /\ balance' = balance - amount /\ amount \in Amounts
  PROVE  SolventInv'
  <1>1. PICK l \in Nat : l = Len(requests) /\ DOMAIN requests = 1 .. l /\ requests \in Seq(TransferRecord)
    BY DEF TerminalInv, HistoryInv
  <1>2. /\ tx.operation = op /\ tx.amount = amount /\ tx.fee = fee /\ tx.created_at = clock /\ tx.memo = l + 1
        /\ tx.stage = (IF op = "CreditOnSuccess" THEN "Single" ELSE "First")
    BY <1>1 DEF NewTransfer
  <1>3. tx \in TransferRecord
    <2>1. clock \in Nat /\ l + 1 \in Nat
      BY <1>1, LedgerTyped
    <2>2. PICK next \in Nat : next = l + 1
      BY <2>1
    <2>3. NewTransfer(op, amount, fee, clock, next) \in TransferRecord
      BY <2>1, NewTransferType
    <2> QED
      BY <1>1, <2>2, <2>3
  <1>4. /\ requests' = Append(requests, tx) /\ credits' = Append(credits, << >>) /\ recovery' = recovery
        /\ funds' = funds /\ blocks' = blocks /\ ledger_fee' = ledger_fee /\ clock' = clock
        /\ saved_fee' = saved_fee /\ Valid(tx)
    BY DEF Begin, ledger
  <1>5. /\ DOMAIN requests' = 1 .. (l + 1) /\ requests'[l + 1] = tx /\ Len(requests') = l + 1
        /\ \A m \in DOMAIN requests : requests'[m] = requests[m] /\ m # l + 1
        /\ \A m \in DOMAIN requests' : m = l + 1 \/ m \in DOMAIN requests
    BY <1>1, <1>3, <1>4
  <1>6. credits'[l + 1] = << >> /\ \A m \in DOMAIN requests : credits'[m] = credits[m]
    <2>1. credits \in Seq(Seq(Nat)) /\ Len(credits) = l
      BY <1>1 DEF TerminalInv, HistoryInv
    <2> QED
      BY <1>1, <1>4, <2>1
  <1>7. \A m \in DOMAIN requests : (Started(m)' <=> Started(m)) /\ Net(m)' = Net(m)
    BY <1>4, <1>5 DEF Started, FirstBlock, Net
  <1>8. ~ Started(l + 1)' /\ BlocksOf(l + 1, "interim") = {}
    <2>1. FirstBlock(l + 1)'.memo = l + 1
      BY <1>2, <1>3, <1>4, <1>5 DEF FirstBlock, Block, WithFee, TransferRecord
    <2>2. \A b \in blocks : b.memo \in DOMAIN requests
      BY DEF OnceInv, BlocksInv
    <2>3. \A b \in blocks : b.memo # l + 1
      BY <1>5, <2>2
    <2> QED
      BY <1>4, <2>1, <2>3 DEF Started, BlocksOf
  <1>9. \A m : BlocksOf(m, "interim")' = BlocksOf(m, "interim")
    BY <1>4 DEF BlocksOf
  <1>10. \A t : InOrder(t)' <=> InOrder(t)
    BY <1>9 DEF InOrder
  <1>11. Covered'
    <2>1. PICK old, new : old = AllOwed /\ new = AllOwed'
      OBVIOUS
    <2>2. \A k \in 1 .. l : Owed(k) \in Nat /\ Owed(k)' = Owed(k)
      BY <1>1, <1>5, <1>6, <1>7, OwedTyped DEF Owed
    <2>3. PICK owed \in Nat : owed = Owed(l + 1)' /\ balance' + owed = balance /\ balance' \in Nat
      <3>1. Owed(l + 1)' = IF op = "CreditOnSuccess" THEN 0 ELSE amount
        BY <1>2, <1>5, <1>6, <1>8 DEF Owed
      <3>2. balance \in Nat
        BY DEF TerminalInv, CanisterInv
      <3> QED
        BY <3>1, <3>2
    <2>4. old \in [1 .. l -> Nat] /\ \A k \in 1 .. l : old[k] = Owed(k)
      BY <1>1, <2>1, <2>2 DEF AllOwed
    <2>5. /\ \A k \in 1 .. l : new[k] = Owed(k)' /\ k \in 1 .. (l + 1)
          /\ new[l + 1] = owed
      BY <1>5, <2>1, <2>3 DEF AllOwed
    <2>6. new \in [1 .. (l + 1) -> Nat]
      <3>1. \A k \in 1 .. (l + 1) : Owed(k)' \in Nat
        BY <1>1, <1>5, <2>2, <2>3
      <3> QED
        BY <1>5, <2>1, <3>1 DEF AllOwed
    <2>7. PICK sums : Adds(sums, old, l) /\ BalanceOf(Own("main")) = balance + sums[l]
      BY <1>1, <2>1 DEF Covered, SolventInv
    <2>8. \A k \in 1 .. l : old[k] = new[k]
      BY <2>2, <2>4, <2>5
    <2>9. PICK then : Adds(then, new, l + 1) /\ then[l + 1] = sums[l] + new[l + 1]
      <3>1. \E then : Adds(then, new, l + 1) /\ then[l + 1] = sums[l] + new[l + 1]
        BY <2>4, <2>6, <2>7, <2>8, AddsOneMore
      <3> QED
        BY <3>1
    <2>10. BalanceOf(Own("main"))' = BalanceOf(Own("main"))
      BY <1>4 DEF BalanceOf, Own
    <2>11. BalanceOf(Own("main"))' = balance' + then[l + 1]
      <3>1. PICK total \in Nat : total = sums[l]
        BY <2>7 DEF Adds
      <3>2. balance + total = balance' + (total + owed)
        BY <2>3
      <3> QED
        BY <2>5, <2>7, <2>9, <2>10, <3>1, <3>2
    <2> QED
      BY <1>5, <2>1, <2>9, <2>11 DEF Covered
  <1>12. PaidInv'
    <2>1. Valid(WithFee(tx, ledger_fee))
      <3>1. PICK u : u = WithFee(tx, ledger_fee)
        OBVIOUS
      <3>2. u.stage = tx.stage /\ u.amount = amount /\ u.fee = ledger_fee
        BY <1>2, <1>3, <3>1 DEF WithFee, TransferRecord
      <3>3. ledger_fee \in Nat
        BY LedgerTyped
      <3>4. Valid(u)
        BY <1>2, <1>4, <3>2, <3>3 DEF Valid, EffectiveFee
      <3> QED
        BY <3>1, <3>4
    <2>2. \A m \in DOMAIN requests' :
            /\ Valid(WithFee(requests'[m], ledger_fee))
            /\ requests'[m].operation = "CreditOnError" => requests'[m].amount \in Amounts
      BY <1>2, <1>5, <2>1 DEF SolventInv, PaidInv
    <2> QED
      BY <1>4, <2>2 DEF SolventInv, PaidInv
  <1>13. PICK n : n = [Send(f, tx, NRetries, FALSE) EXCEPT !.fee = tx.fee]
    OBVIOUS
  <1>14. n.call = "transfer" /\ n.tx = tx /\ n.queue = {} /\ n.reply = NoReply /\ n.since = clock
    <2>1. flows[f] \in FlowRecord /\ flows[f].queue = {}
      BY Typed DEF CleanFlow
    <2> QED
      BY <1>13, <2>1 DEF Send, FlowRecord
  <1>15. FlowTells(n)'
    <2>1. InOrder(n.tx)' /\ ~ Started(n.tx.memo)'
      <3>1. n.tx.memo = l + 1
        BY <1>2, <1>14
      <3> QED
        BY <1>8, <1>9, <3>1 DEF InOrder
    <2>2. ~ Confirmed(n)
      BY <1>14 DEF Confirmed, NoReply
    <2>3. clock' - n.since <= MaxLatency /\ n.since - n.tx.created_at < DedupPeriod - TxWindow
      BY <1>2, <1>4, <1>14, Times
    <2> QED
      BY <1>14, <2>1, <2>2, <2>3 DEF FlowTells
  <1>16. \A g \in Flow : flows'[g] = IF g = f THEN n ELSE flows[g]
    BY <1>13 DEF TerminalInv, CanisterInv, Begin
  <1>17. ASSUME NEW g \in Flow, g # f PROVE FlowTells(flows[g])'
    <2>1. PICK r : r = flows[g] /\ r = flows'[g]
      BY <1>16, <1>17
    <2>2. FlowTells(r) /\ (OwnMemo(r) => r.tx.memo \in DOMAIN requests)
      BY <2>1, MemosKnown DEF SolventInv
    <2>3. FlowTells(r)'
      BY <1>4, <1>7, <1>9, <1>10, <2>2 DEF FlowTells, OwnMemo, Refuted, Confirmed
    <2> QED
      BY <2>1, <2>3
  <1>18. (\A g \in Flow : FlowTells(flows[g]))'
    <2> SUFFICES ASSUME NEW g \in Flow PROVE FlowTells(flows[g])'
      OBVIOUS
    <2>1. CASE g = f
      BY <1>15, <1>16, <2>1
    <2> QED
      BY <1>17, <2>1
  <1>19. (\A t \in recovery : InOrder(t))'
    BY <1>4, <1>10 DEF SolventInv
  <1> QED
    BY <1>11, <1>12, <1>18, <1>19 DEF SolventInv

LEMMA DepositTells ==
  ASSUME TerminalInv, OnceInv, SolventInv, NEW f \in Flow, NEW amount \in Amounts,
         Deposit(f, amount) \/ Withdraw(f, amount)
  PROVE  SolventInv'
  <1>1. amount \in Nat /\ saved_fee \in Nat /\ saved_fee >= ledger_fee /\ flows[f].call = "None"
    BY Constants, ListTyped, OwnTells DEF Deposit, Withdraw, Busy
  <1>2. PICK op \in Operation :
          /\ Begin(f, New(op, amount))
          /\ \/ op = "CreditOnSuccess" /\ balance' = balance
             \/ op = "CreditOnError" /\ amount <= balance /\ balance' = balance - amount /\ amount \in Amounts
    BY DEF Deposit, Withdraw, Operation
  <1>3. PICK tx : tx = New(op, amount)
    OBVIOUS
  <1>4. tx = NewTransfer(op, amount, saved_fee, clock, Len(requests) + 1)
    BY <1>3 DEF New
  <1> QED
    BY <1>1, <1>2, <1>3, <1>4, BeginTells

LEMMA DepositAllTells ==
  ASSUME TerminalInv, OnceInv, SolventInv, NEW f \in Flow, DepositAll(f) \/ OnDepositBalance(f)
  PROVE  SolventInv'
  <1>1. saved_fee >= ledger_fee /\ \A t \in recovery : InOrder(t)
    BY OwnTells
  <1>2. CASE DepositAll(f)
    <2>1. PICK n : n = [Idle EXCEPT !.call = "deposit_balance", !.fee = saved_fee]
      OBVIOUS
    <2>2. n.call = "deposit_balance" /\ n.reply = NoReply /\ n.queue = {} /\ n.fee = saved_fee
      BY <2>1 DEF Idle
    <2>3. FlowTells(n)
      BY <1>1, <2>2, WaitingTells DEF OwnMemo
    <2>4. /\ flows' = [flows EXCEPT ![f] = n] /\ UNCHANGED << recovery, saved_fee, ledger, clock, requests >>
          /\ Pays
      BY <1>2, <2>1 DEF DepositAll, history, Pays, NoCredit
    <2> QED
      BY <1>1, <2>3, <2>4, FlowKeepsTelling
  <1>3. CASE OnDepositBalance(f)
    <2>1. PICK op, amount, fee : op = "CreditOnSuccess" /\ amount = flows[f].reply.value /\ fee = flows[f].fee
      OBVIOUS
    <2>2. flows[f].call = "deposit_balance"
      BY <1>3 DEF OnDepositBalance, Replied
    <2>3. op \in Operation /\ amount \in Nat /\ fee \in Nat /\ fee >= ledger_fee
      <3>1. flows[f] \in FlowRecord
        BY Typed
      <3>2. fee >= ledger_fee
        BY <2>1, <2>2, OwnTells DEF FlowTells
      <3> QED
        BY <2>1, <3>1, <3>2 DEF Operation, FlowRecord, ReplyRecord
    <2>4. PICK tx : tx = NewTransfer(op, amount, fee, clock, Len(requests) + 1)
      OBVIOUS
    <2>5. \/ Begin(f, tx) /\ balance' = balance
          \/ /\ flows' = [flows EXCEPT ![f] = Idle] /\ Pays
             /\ UNCHANGED << recovery, saved_fee, ledger, clock, requests >>
      BY <1>3, <2>1, <2>4 DEF OnDepositBalance, history, Pays, NoCredit
    <2>6. CASE Begin(f, tx) /\ balance' = balance
      BY <2>1, <2>2, <2>3, <2>4, <2>6, BeginTells
    <2>7. CASE /\ flows' = [flows EXCEPT ![f] = Idle] /\ Pays
               /\ UNCHANGED << recovery, saved_fee, ledger, clock, requests >>
      BY <1>1, <2>7, IdleTells, FlowKeepsTelling
    <2> QED
      BY <2>5, <2>6, <2>7
  <1> QED
    BY <1>2, <1>3

LEMMA RecoverAllTells ==
  ASSUME TerminalInv, SolventInv, NEW f \in Flow, RecoverAll(f)
  PROVE  SolventInv'
  <1>1. recovery' = {} /\ UNCHANGED << ledger, clock, requests, saved_fee >> /\ Pays
    BY DEF RecoverAll, Taken, Pays, NoCredit
  <1>2. saved_fee \in Nat /\ saved_fee >= ledger_fee /\ \A t \in recovery : t \in TransferRecord /\ InOrder(t)
    BY ListTyped, OwnTells
  <1>3. CASE UNCHANGED flows
    <2>1. \A g \in Flow : FlowTells(flows'[g])
      BY <1>3 DEF SolventInv
    <2> QED
      BY <1>1, <1>2, <2>1, CanisterTells
  <1>4. CASE ~ UNCHANGED flows
    <2>1. PICK t \in recovery, rest \in SUBSET recovery :
            /\ ~ TooOld(t)
            /\ flows' = [flows EXCEPT ![f] = [Recover(f, t) EXCEPT !.fee = saved_fee, !.queue = rest]]
      BY <1>4 DEF RecoverAll
    <2>2. PICK n : n = [Recover(f, t) EXCEPT !.fee = saved_fee, !.queue = rest]
      OBVIOUS
    <2>3. FlowTells(n)
      BY <1>2, <2>1, <2>2, RecoverTells
    <2> QED
      BY <1>1, <1>2, <2>1, <2>2, <2>3, FlowKeepsTelling
  <1> QED
    BY <1>3, <1>4

LEMMA SetFeeTells ==
  ASSUME TerminalInv, OnceInv, SolventInv, OneFee, NEW fee \in AdminFees, SetFee(fee)
  PROVE  SolventInv'
  <1>1. fee = ledger_fee /\ fee \in Nat
    BY FeeIsOne, Constants
  <1>2. recovery' \in Rewritten(fee) /\ UNCHANGED << flows, ledger, clock, requests >> /\ saved_fee' = fee /\ Pays
    BY DEF SetFee, history, Pays, NoCredit
  <1>3. \A t \in recovery' : InOrder(t)
    BY <1>1, <1>2, RewrittenInOrder
  <1>4. \A g \in Flow : FlowTells(flows'[g])
    BY <1>2 DEF SolventInv
  <1> QED
    BY <1>1, <1>2, <1>3, <1>4, CanisterTells

\* Time passes only while the attempts at a transfer may last longer.
LEMMA TickTells ==
  ASSUME TerminalInv, SolventInv, Tick
  PROVE  SolventInv'
  <1>1. /\ UNCHANGED << flows, recovery, balance, saved_fee, funds, blocks, ledger_fee, requests, credits >>
        /\ clock' = clock + 1
        /\ \A f \in Flow : flows[f].call \in {"transfer", "minting_account"} =>
             clock - flows[f].since < MaxLatency
    BY DEF Tick, canister, ledger, history
  <1>2. \A m : (Started(m)' <=> Started(m)) /\ BlocksOf(m, "interim")' = BlocksOf(m, "interim") /\ Net(m)' = Net(m)
    BY <1>1 DEF Started, FirstBlock, BlocksOf, Net
  <1>3. \A t : InOrder(t)' <=> InOrder(t)
    BY <1>2 DEF InOrder
  <1>4. ASSUME NEW f \in Flow PROVE FlowTells(flows[f])'
    <2>1. PICK r : r = flows[f] /\ r = flows'[f]
      BY <1>1
    <2>2. FlowTells(r)
      BY <2>1 DEF SolventInv
    <2>3. r.since \in Nat /\ clock \in Nat /\ MaxLatency \in Nat
      BY <2>1, Typed, Times DEF FlowRecord
    <2>4. r.call \in {"transfer", "minting_account"} => clock' - r.since <= MaxLatency
      BY <1>1, <2>1, <2>3
    <2>5. FlowTells(r)'
      BY <1>1, <1>2, <1>3, <2>2, <2>4 DEF FlowTells, OwnMemo, Refuted, Confirmed
    <2> QED
      BY <2>1, <2>5
  <1>5. (\A f \in Flow : FlowTells(flows[f]))' /\ (\A t \in recovery : InOrder(t))'
    BY <1>1, <1>3, <1>4 DEF SolventInv
  <1>6. PaidInv'
    BY <1>1 DEF SolventInv, PaidInv
  <1>7. Covered'
    <2>1. \A k \in DOMAIN requests : Owed(k)' = Owed(k)
      BY <1>1, <1>2 DEF Owed
    <2>2. BalanceOf(Own("main"))' = BalanceOf(Own("main"))
      BY <1>1 DEF BalanceOf, Own
    <2> QED
      BY <1>1, <2>1, <2>2, CoveredSame DEF SolventInv
  <1> QED
    BY <1>5, <1>6, <1>7 DEF SolventInv

-----------------------------------------------------------------------------
(* Steps of the ledger, whose replies tell the truth *)

\* What an answer tells when the ledger refuses
LEMMA Refusals ==
  ASSUME TerminalInv, OnceInv, NEW f \in Flow, OwnMemo(flows[f])
  PROVE  LET tx == flows[f].tx
             answer == Answer(tx)
         IN  /\ answer.kind = "TooOld" => clock - tx.created_at >= DedupPeriod
             /\ answer.kind = "InsufficientFunds" =>
                  tx.fee = ledger_fee /\ clock - tx.created_at < DedupPeriod /\ Block(tx) \notin blocks
  <1>1. flows[f].tx \in TransferRecord /\ clock \in Nat /\ DedupPeriod \in Nat
    BY OwnStep, LedgerTyped
  <1>2. flows[f].tx.created_at \in Nat /\ flows[f].tx.fee \in Nat
    BY <1>1 DEF TransferRecord
  <1> QED
    BY <1>1, <1>2 DEF Answer, Reply

\* The first step of a transfer is never too old for the ledger.
LEMMA NeverTooOld ==
  ASSUME TerminalInv, SolventInv, NEW f \in Flow, flows[f].call = "transfer", flows[f].tx.stage # "Second"
  PROVE  clock - flows[f].tx.created_at < DedupPeriod
  <1>1. PICK now \in Nat, since \in Nat, created \in Nat :
          now = clock /\ since = flows[f].since /\ created = flows[f].tx.created_at
    BY Typed DEF FlowRecord, TransferRecord
  <1>2. now - since <= MaxLatency /\ since - created < DedupPeriod - TxWindow
    BY <1>1, OwnTells DEF FlowTells
  <1>3. now - created < DedupPeriod
    BY <1>2, Times
  <1> QED
    BY <1>1, <1>3

\* A block of the second step
LEMMA SecondStepBlock ==
  ASSUME TerminalInv, OnceInv, NEW f \in Flow, OwnMemo(flows[f])
  PROVE  /\ Block(flows[f].tx).memo = flows[f].tx.memo
         /\ flows[f].tx.stage = "Second" <=> Block(flows[f].tx).from.kind = "interim"
  <1> DEFINE tx == flows[f].tx
  <1>1. tx \in TransferRecord /\ tx.memo \in DOMAIN requests /\ tx.interim = requests[tx.memo].interim
    BY OwnStep DEF StepOf
  <1>2. tx.interim.kind = "interim"
    BY <1>1, RequestShape
  <1>3. Block(tx).memo = tx.memo /\ Block(tx).from = From(tx)
    BY DEF Block
  <1>4. tx.stage = "Second" <=> From(tx).kind = "interim"
    BY <1>1, <1>2 DEF From, Own, TransferRecord, Stage
  <1> QED
    BY <1>3, <1>4

\* What flow f is told by a reply when the ledger executes nothing
LEMMA AnswerTells ==
  ASSUME TerminalInv, OnceInv, SolventInv, NEW f \in Flow, flows[f].call = "transfer", flows[f].reply = NoReply,
         NEW reply, NEW n, n = [flows[f] EXCEPT !.reply = reply],
         \/ reply = Answer(flows[f].tx) /\ reply.kind # "Ok"
         \/ reply.kind \in {"MaybeFailed", "Unavailable"}
  PROVE  /\ Refuted(n) => ~ Started(n.tx.memo)
         /\ Confirmed(n) =>
              IF n.tx.stage = "Second" THEN BlocksOf(n.tx.memo, "interim") # {} ELSE Started(n.tx.memo)
  <1> DEFINE tx == flows[f].tx
  <1>1. flows[f] \in FlowRecord /\ OwnMemo(flows[f]) /\ FlowTells(flows[f])
    BY Typed, OwnTells DEF OwnMemo
  <1>2. n.call = "transfer" /\ n.reply = reply /\ n.tx = tx /\ n.recovering = flows[f].recovering
    BY <1>1 DEF FlowRecord
  <1>3. ASSUME Refuted(n) PROVE ~ Started(tx.memo)
    <2>1. tx.stage # "Second"
      BY <1>2, <1>3 DEF Refuted
    <2>2. CASE ~ flows[f].recovering
      <3>1. Refuted(flows[f])
        BY <2>1, <2>2 DEF Refuted, NoReply
      <3> QED
        BY <1>1, <3>1 DEF FlowTells
    <2>3. CASE reply.kind \in {"InsufficientFunds", "TooOld"}
      <3>1. reply = Answer(tx)
        BY <2>3
      <3>2. clock - tx.created_at < DedupPeriod
        BY <2>1, NeverTooOld
      <3>3. reply.kind # "TooOld"
        <4>1. clock \in Nat /\ tx.created_at \in Nat /\ DedupPeriod \in Nat
          BY Typed, LedgerTyped DEF TransferRecord
        <4> QED
          BY <1>1, <3>1, <3>2, <4>1, Refusals
      <3>4. tx.fee = ledger_fee /\ Block(tx) \notin blocks
        BY <1>1, <2>3, <3>1, <3>3, Refusals
      <3> QED
        BY <1>1, <2>1, <3>2, <3>4, FirstStepBlock DEF Started
    <2> QED
      BY <1>2, <1>3, <2>2, <2>3 DEF Refuted
  <1>4. ASSUME Confirmed(n)
        PROVE  IF tx.stage = "Second" THEN BlocksOf(tx.memo, "interim") # {} ELSE Started(tx.memo)
    <2>1. reply = Answer(tx) /\ reply.kind = "Duplicate"
      BY <1>2, <1>4 DEF Confirmed
    <2>2. Block(tx) \in blocks /\ tx.fee = ledger_fee /\ clock - tx.created_at < DedupPeriod
      BY <1>1, <2>1, Answers
    <2>3. CASE tx.stage = "Second"
      BY <1>1, <2>2, <2>3, SecondStepBlock DEF BlocksOf
    <2>4. CASE tx.stage # "Second"
      BY <1>1, <2>2, <2>4, FirstStepBlock DEF Started
    <2> QED
      BY <2>3, <2>4
  <1> QED
    BY <1>2, <1>3, <1>4

\* What the balance of an interim account tells
LEMMA BalanceTells ==
  ASSUME TerminalInv, OnceInv, SolventInv, NEW f \in Flow, flows[f].call = "interim_balance",
         NEW reply, NEW n, n = [flows[f] EXCEPT !.reply = reply],
         reply.kind = "Value" => reply.value = BalanceOf(flows[f].tx.interim)
  PROVE  /\ Refuted(n) => ~ Started(n.tx.memo)
         /\ Confirmed(n) =>
              IF n.tx.stage = "Second" THEN BlocksOf(n.tx.memo, "interim") # {} ELSE Started(n.tx.memo)
  <1> DEFINE tx == flows[f].tx
  <1>1. flows[f] \in FlowRecord /\ OwnMemo(flows[f]) /\ FlowTells(flows[f])
    BY Typed, OwnTells DEF OwnMemo
  <1>2. n.call = "interim_balance" /\ n.reply = reply /\ n.tx = tx
    BY <1>1 DEF FlowRecord
  <1>3. PICK m : m = tx.memo
    OBVIOUS
  <1>4. /\ tx \in TransferRecord /\ m \in DOMAIN requests /\ requests[m] \in TransferRecord /\ StepOf(tx)
        /\ ledger_fee \in Nat
    BY <1>1, <1>3, OwnStep
  <1>5. tx.stage \in {"First", "Second"} /\ requests[m].stage = "First" /\ tx.interim = requests[m].interim
    <2>1. tx.stage # "Single"
      BY <1>1 DEF FlowTells
    <2> QED
      BY <1>3, <1>4, <2>1 DEF StepOf, TransferRecord, Stage
  <1>6. BalanceOf(tx.interim) = IF Started(m) /\ BlocksOf(m, "interim") = {} THEN Net(m) ELSE 0
    BY <1>4, <1>5 DEF OnceInv, InterimInv
  <1>7. Net(m) # 0
    <2>1. PICK u : u = WithFee(requests[m], ledger_fee)
      OBVIOUS
    <2>2. u.stage = "First" /\ u.amount = requests[m].amount /\ u.fee = ledger_fee /\ u.amount \in Nat
      BY <1>4, <1>5, <2>1 DEF WithFee, TransferRecord
    <2>3. Valid(u)
      BY <1>4, <2>1 DEF SolventInv, PaidInv
    <2>4. u.amount > 2 * u.fee
      BY <2>2, <2>3 DEF Valid, EffectiveFee
    <2>5. u.amount > u.fee /\ u.amount - u.fee # 0
      BY <1>4, <2>2, <2>4
    <2> QED
      BY <2>1, <2>5 DEF Net, AmountMinusFee
  <1>8. ASSUME Refuted(n) PROVE ~ Started(m)
    <2>1. tx.stage = "First" /\ BalanceOf(tx.interim) = 0
      BY <1>2, <1>5, <1>8 DEF Refuted
    <2>2. BlocksOf(m, "interim") = {}
      BY <1>1, <1>3, <2>1, OwnTells DEF InOrder
    <2> QED
      BY <1>6, <1>7, <2>1, <2>2
  <1>9. ASSUME Confirmed(n) PROVE tx.stage = "Second" /\ BlocksOf(m, "interim") # {}
    <2>1. tx.stage = "Second" /\ BalanceOf(tx.interim) = 0
      BY <1>2, <1>9 DEF Confirmed
    <2>2. Started(m)
      BY <1>3, <1>4, <2>1 DEF StepOf
    <2> QED
      BY <1>6, <1>7, <2>1, <2>2
  <1> QED
    BY <1>2, <1>3, <1>8, <1>9

\* A reply for flow f, with blocks that are added for its transfer at most
LEMMA HandledTells ==
  ASSUME TerminalInv, SolventInv, NEW f \in Flow, NEW call, NEW reply, Handled(f, call, reply), Covered',
         \A k \in DOMAIN requests :
           \/ (Started(k)' <=> Started(k)) /\ BlocksOf(k, "interim")' = BlocksOf(k, "interim")
           \/ OwnMemo(flows[f]) /\ k = flows[f].tx.memo,
         NEW n, n = [flows[f] EXCEPT !.reply = reply],
         OwnMemo(n) => InOrder(n.tx)',
         Refuted(n) => ~ Started(n.tx.memo)',
         Confirmed(n) =>
           IF n.tx.stage = "Second" THEN BlocksOf(n.tx.memo, "interim")' # {} ELSE Started(n.tx.memo)'
  PROVE  SolventInv'
  <1>1. /\ flows' = [flows EXCEPT ![f] = n] /\ recovery' = recovery /\ requests' = requests
        /\ ledger_fee' = ledger_fee /\ saved_fee' = saved_fee /\ clock' = clock
    BY DEF Handled, history
  <1>2. flows \in [Flow -> FlowRecord] /\ flows[f] \in FlowRecord /\ CleanFlow(flows[f]) /\ FlowTells(flows[f])
    BY Typed, OwnTells
  <1>3. \A g \in Flow : flows'[g] = IF g = f THEN n ELSE flows[g]
    BY <1>1, <1>2
  <1>4. \A t : /\ t.memo \in DOMAIN requests /\ InOrder(t)
               /\ OwnMemo(flows[f]) => t.memo # flows[f].tx.memo
               => InOrder(t)'
    BY DEF InOrder
  <1>5. \A t \in recovery : InOrder(t)'
    <2> SUFFICES ASSUME NEW t \in recovery PROVE InOrder(t)'
      OBVIOUS
    <2>1. t \in TransferRecord /\ t.memo \in DOMAIN requests /\ InOrder(t)
      BY MemosKnown DEF SolventInv
    <2>2. t.memo \in Nat
      BY <2>1 DEF TransferRecord
    <2>3. \A m \in Nat : OwnMemo(flows[f]) /\ m = flows[f].tx.memo => ~ Lists(recovery, m)
      BY ListTyped DEF Holds
    <2> QED
      BY <1>4, <2>1, <2>2, <2>3 DEF Lists
  <1>6. /\ n.tx = flows[f].tx /\ n.call = flows[f].call /\ n.queue = flows[f].queue
        /\ n.since = flows[f].since /\ n.fee = flows[f].fee
    BY <1>2 DEF FlowRecord
  <1>7. \A t \in flows[f].queue : InOrder(t)'
    <2>1. \A t \in flows[f].queue : t.memo \in DOMAIN requests /\ InOrder(t)
      BY MemosKnown, OwnTells
    <2>2. OwnMemo(flows[f]) => \A t \in flows[f].queue : t.memo # flows[f].tx.memo
      BY <1>2 DEF CleanFlow
    <2> QED
      BY <1>4, <2>1, <2>2
  <1>8. FlowTells(n)'
    BY <1>1, <1>2, <1>6, <1>7 DEF FlowTells, OwnMemo, Refuted, Confirmed
  <1>9. ASSUME NEW g \in Flow, g # f PROVE FlowTells(flows[g])'
    <2>1. PICK r : r = flows[g] /\ r = flows'[g]
      BY <1>3, <1>9
    <2>2. /\ FlowTells(r)
          /\ OwnMemo(r) => r.tx.memo \in DOMAIN requests
          /\ \A t \in r.queue : t.memo \in DOMAIN requests
      BY <2>1, MemosKnown, OwnTells
    <2>3. \A m \in Nat : Holds(r, m) => ~ Holds(flows[f], m)
      BY <1>9, <2>1, HeldByHolds DEF TerminalInv, OwnerInv
    <2>4. /\ OwnMemo(r) => r.tx.memo \in Nat /\ Holds(r, r.tx.memo)
          /\ \A t \in r.queue : t.memo \in Nat /\ Holds(r, t.memo)
      BY <2>1, Typed DEF Holds
    <2>5. OwnMemo(flows[f]) => Holds(flows[f], flows[f].tx.memo)
      BY DEF Holds
    <2>6. (OwnMemo(r) => InOrder(r.tx)') /\ \A t \in r.queue : InOrder(t)'
      BY <1>4, <2>2, <2>3, <2>4, <2>5 DEF FlowTells
    <2>7. OwnMemo(r) => /\ Started(r.tx.memo)' <=> Started(r.tx.memo)
                        /\ BlocksOf(r.tx.memo, "interim")' = BlocksOf(r.tx.memo, "interim")
      BY <2>2, <2>3, <2>4, <2>5
    <2>8. (Refuted(r) => OwnMemo(r)) /\ (Confirmed(r) => OwnMemo(r))
      BY DEF Refuted, Confirmed, OwnMemo
    <2>9. FlowTells(r)'
      BY <1>1, <2>2, <2>6, <2>7, <2>8 DEF FlowTells
    <2> QED
      BY <2>1, <2>9
  <1>10. (\A g \in Flow : FlowTells(flows[g]))'
    <2> SUFFICES ASSUME NEW g \in Flow PROVE FlowTells(flows[g])'
      OBVIOUS
    <2>1. CASE g = f
      BY <1>3, <1>8, <2>1
    <2> QED
      BY <1>9, <2>1
  <1>11. (\A t \in recovery : InOrder(t))'
    BY <1>1, <1>5
  <1>12. PaidInv'
    BY <1>1 DEF SolventInv, PaidInv
  <1> QED
    BY <1>10, <1>11, <1>12 DEF SolventInv

\* The ledger executes the step that flow f is about: what is owed for its
\* request changes by what the main account pays or receives.
LEMMA ExecuteCovered ==
  ASSUME TerminalInv, OnceInv, SolventInv, NEW f \in Flow, OwnMemo(flows[f]), Answer(flows[f].tx).kind = "Ok",
         Execute(flows[f].tx), UNCHANGED << ledger_fee, requests, credits, balance >>
  PROVE  Covered'
  <1> DEFINE tx == flows[f].tx
  <1>1. PICK m : m = tx.memo
    OBVIOUS
  <1>2. /\ tx \in TransferRecord /\ requests[m] \in TransferRecord /\ m \in DOMAIN requests /\ StepOf(tx)
        /\ tx.fee = ledger_fee /\ clock - tx.created_at < DedupPeriod /\ Block(tx) \notin blocks
        /\ BalanceOf(From(tx)) >= AmountMinusFee(tx) + tx.fee
    BY <1>1, OwnStep, Answers
  <1>3. \A k \in DOMAIN requests : Started(k)' <=> (Started(k) \/ k = m)
    BY <1>1, ExecuteOnce
  <1>4. \A k : Net(k)' = Net(k)
    BY DEF Net
  <1>5. \A k \in DOMAIN requests : k # m => Owed(k)' = Owed(k)
    BY <1>3, <1>4 DEF Owed
  <1>6. credits[m] = << >>
    BY <1>1, OwnOwed
  <1>7. Owed(m)' = IF requests[m].operation = "CreditOnSuccess" THEN Net(m) ELSE 0
    BY <1>2, <1>3, <1>4, <1>6 DEF Owed
  <1>8. /\ tx.operation = requests[m].operation /\ requests[m].interim.kind = "interim"
        /\ requests[m].stage = IF requests[m].operation = "CreditOnSuccess" THEN "Single" ELSE "First"
    BY <1>1, <1>2, RequestShape DEF StepOf
  <1>9. PICK net \in Nat, fee \in Nat, before \in Nat :
          net = AmountMinusFee(tx) /\ fee = tx.fee /\ before = BalanceOf(Own("main"))
    <2>1. AmountMinusFee(tx) \in Nat /\ tx.fee \in Nat
      BY <1>2, TransferTypes DEF TransferRecord
    <2>2. BalanceOf(Own("main")) \in Nat
      BY LedgerTyped
    <2> QED
      BY <2>1, <2>2
  <1>10. PICK main : main = Own("main")
    OBVIOUS
  <1>11. BalanceOf(Own("main"))' = before + (IF Own("main") = To(tx) THEN net ELSE 0)
                                          - (IF Own("main") = From(tx) THEN net + fee ELSE 0)
    <2>1. BalanceOf(main)' = before + (IF main = To(tx) THEN net ELSE 0)
                                    - (IF main = From(tx) THEN net + fee ELSE 0)
      BY <1>2, <1>9, <1>10, BalanceAfter
    <2>2. BalanceOf(Own("main"))' = BalanceOf(main)'
      BY <1>10 DEF Own
    <2> QED
      BY <1>10, <2>1, <2>2
  <1>12. balance \in Nat /\ Owed(m) \in Nat /\ Net(m) \in Nat
    BY <1>2, OwedTyped DEF TerminalInv, CanisterInv
  <1>13. tx.stage # "Second" => ~ Started(m) /\ tx.stage = requests[m].stage /\ tx.amount = requests[m].amount
    BY <1>1, <1>2, FirstStepBlock DEF Started, StepOf
  <1>14. Own("main") # Own("deposit") /\ Own("main") # Own("user") /\ Own("main") # tx.interim
    BY <1>1, <1>2, <1>8 DEF Own, StepOf
  <1>15. CASE tx.stage = "Single"
    <2>1. From(tx) = Own("deposit") /\ To(tx) = Own("main")
      BY <1>15 DEF From, To
    <2>2. BalanceOf(Own("main"))' = before + net
      BY <1>9, <1>11, <1>14, <2>1
    <2>3. requests[m].operation = "CreditOnSuccess" /\ Owed(m) = 0
      BY <1>6, <1>8, <1>13, <1>15 DEF Owed
    <2>4. net = Net(m)
      BY <1>2, <1>9, <1>13, <1>15 DEF Net, AmountMinusFee, WithFee, TransferRecord
    <2>5. Owed(m)' = net /\ balance' = balance
      BY <1>7, <2>3, <2>4
    <2>6. BalanceOf(Own("main"))' + balance + Owed(m) = BalanceOf(Own("main")) + balance' + Owed(m)'
      BY <1>9, <1>12, <2>2, <2>3, <2>5
    <2> QED
      BY <1>2, <1>5, <1>12, <2>2, <2>5, <2>6, CoveredKept DEF SolventInv
  <1>16. CASE tx.stage = "First"
    <2>1. From(tx) = Own("main") /\ To(tx) = tx.interim
      BY <1>16 DEF From, To
    <2>2. before >= net + fee
      BY <1>2, <1>9, <2>1
    <2>3. BalanceOf(Own("main"))' = before - (net + fee)
      BY <1>9, <1>11, <1>14, <2>1
    <2>4. requests[m].operation # "CreditOnSuccess" /\ Owed(m) = requests[m].amount
      BY <1>6, <1>8, <1>13, <1>16 DEF Owed
    <2>5. net + fee = requests[m].amount
      <3>1. PICK u : u = WithFee(requests[m], ledger_fee)
        OBVIOUS
      <3>2. u.stage = "First" /\ u.amount = tx.amount /\ u.fee = fee /\ tx.amount \in Nat
        BY <1>2, <1>9, <1>13, <1>16, <3>1 DEF WithFee, TransferRecord
      <3>3. Valid(u)
        BY <1>2, <3>1 DEF SolventInv, PaidInv
      <3>4. tx.amount > 2 * fee
        BY <3>2, <3>3 DEF Valid, EffectiveFee
      <3>5. tx.amount > fee /\ net = tx.amount - fee
        BY <1>9, <3>2, <3>4 DEF AmountMinusFee
      <3> QED
        BY <1>13, <1>16, <3>2, <3>5
    <2>6. Owed(m)' = 0 /\ balance' = balance /\ BalanceOf(Own("main"))' \in Nat
      BY <1>7, <2>2, <2>3, <2>4
    <2>7. BalanceOf(Own("main"))' + balance + Owed(m) = BalanceOf(Own("main")) + balance' + Owed(m)'
      BY <1>9, <1>12, <2>3, <2>4, <2>5, <2>6
    <2> QED
      BY <1>2, <1>5, <1>12, <2>6, <2>7, CoveredKept DEF SolventInv
  <1>17. CASE tx.stage = "Second"
    <2>1. From(tx) = tx.interim /\ To(tx) = Own("user")
      BY <1>17 DEF From, To
    <2>2. BalanceOf(Own("main"))' = before
      BY <1>9, <1>11, <1>14, <2>1
    <2>3. Started(m) /\ Started(m)'
      BY <1>1, <1>2, <1>3, <1>17 DEF StepOf
    <2>4. Owed(m)' = Owed(m)
      BY <1>4, <2>3 DEF Owed
    <2> QED
      BY <1>5, <1>9, <2>2, <2>4, CoveredSame DEF SolventInv
  <1>18. tx.stage \in {"Single", "First", "Second"}
    BY <1>2 DEF TransferRecord, Stage
  <1> QED
    BY <1>15, <1>16, <1>17, <1>18

LEMMA ExecuteTells ==
  ASSUME TerminalInv, OnceInv, SolventInv, NEW f \in Flow, NEW reply, Handled(f, "transfer", reply),
         Answer(flows[f].tx).kind = "Ok", Execute(flows[f].tx), reply.kind \in {"Ok", "MaybeFailed"}
  PROVE  SolventInv'
  <1> DEFINE tx == flows[f].tx
  <1>1. /\ flows[f].call = "transfer" /\ flows[f] \in FlowRecord /\ OwnMemo(flows[f])
        /\ UNCHANGED << ledger_fee, requests, credits, balance >>
    BY Typed DEF Handled, history, OwnMemo
  <1>2. Covered'
    BY <1>1, ExecuteCovered
  <1>3. PICK m, block : m = tx.memo /\ block = Block(tx)
    OBVIOUS
  <1>4. m \in DOMAIN requests /\ InOrder(tx)
    BY <1>1, <1>3, OwnStep, OwnTells
  <1>5. \A k \in DOMAIN requests : Started(k)' <=> (Started(k) \/ k = m)
    BY <1>1, <1>3, ExecuteOnce
  <1>6. blocks' = blocks \cup {block}
    BY <1>3 DEF Execute
  <1>7. block.memo = m /\ (tx.stage = "Second" <=> block.from.kind = "interim")
    BY <1>1, <1>3, SecondStepBlock
  <1>8. /\ \A k : k # m => BlocksOf(k, "interim")' = BlocksOf(k, "interim")
        /\ tx.stage # "Second" => BlocksOf(m, "interim")' = BlocksOf(m, "interim")
        /\ tx.stage = "Second" => block \in BlocksOf(m, "interim")'
    BY <1>6, <1>7 DEF BlocksOf
  <1>9. PICK n : n = [flows[f] EXCEPT !.reply = reply]
    OBVIOUS
  <1>10. n.call = "transfer" /\ n.reply = reply /\ n.tx = tx /\ n.tx.memo = m
    BY <1>1, <1>3, <1>9 DEF FlowRecord
  <1>11. InOrder(n.tx)'
    BY <1>3, <1>4, <1>8, <1>10 DEF InOrder
  <1>12. ~ Refuted(n)
    BY <1>10 DEF Refuted
  <1>13. IF n.tx.stage = "Second" THEN BlocksOf(n.tx.memo, "interim")' # {} ELSE Started(n.tx.memo)'
    BY <1>4, <1>5, <1>8, <1>10
  <1>14. \A k \in DOMAIN requests :
           \/ (Started(k)' <=> Started(k)) /\ BlocksOf(k, "interim")' = BlocksOf(k, "interim")
           \/ OwnMemo(flows[f]) /\ k = flows[f].tx.memo
    BY <1>1, <1>3, <1>5, <1>8
  <1> QED
    BY <1>2, <1>9, <1>11, <1>12, <1>13, <1>14, HandledTells

LEMMA LedgerStepTells ==
  ASSUME TerminalInv, OnceInv, SolventInv, NEW f \in Flow, LedgerStep(f)
  PROVE  SolventInv'
  \* The replies after which the ledger is as it was
  <1>1. ASSUME NEW call, NEW reply, Handled(f, call, reply), UNCHANGED << blocks, funds >>,
               \/ /\ call = "transfer"
                  /\ \/ reply = Answer(flows[f].tx) /\ reply.kind # "Ok"
                     \/ reply.kind \in {"MaybeFailed", "Unavailable"}
               \/ call \in {"deposit_balance", "minting_account"}
               \/ /\ call = "interim_balance"
                  /\ reply.kind = "Value" => reply.value = BalanceOf(flows[f].tx.interim)
        PROVE  SolventInv'
    <2>1. /\ flows[f].call = call /\ flows[f].reply = NoReply
          /\ UNCHANGED << ledger_fee, requests, credits, balance >>
      BY <1>1 DEF Handled, history
    <2>2. \A k : /\ Started(k)' <=> Started(k)
                 /\ BlocksOf(k, "interim")' = BlocksOf(k, "interim")
                 /\ Net(k)' = Net(k)
      BY <1>1, <2>1 DEF Started, FirstBlock, BlocksOf, Net
    <2>3. Covered'
      <3>1. \A k \in DOMAIN requests : Owed(k)' = Owed(k)
        BY <2>1, <2>2 DEF Owed
      <3>2. BalanceOf(Own("main"))' = BalanceOf(Own("main"))
        BY <1>1 DEF BalanceOf, Own
      <3> QED
        BY <2>1, <3>1, <3>2, CoveredSame DEF SolventInv
    <2>4. PICK n : n = [flows[f] EXCEPT !.reply = reply]
      OBVIOUS
    <2>5. n.call = call /\ n.tx = flows[f].tx
      BY <2>1, <2>4, Typed DEF FlowRecord
    <2>6. /\ Refuted(n) => ~ Started(n.tx.memo)
          /\ Confirmed(n) =>
               IF n.tx.stage = "Second" THEN BlocksOf(n.tx.memo, "interim") # {} ELSE Started(n.tx.memo)
      <3>1. CASE call = "transfer"
        BY <1>1, <2>1, <2>4, <3>1, AnswerTells
      <3>2. CASE call = "interim_balance"
        BY <1>1, <2>1, <2>4, <3>2, BalanceTells
      <3>3. CASE call \in {"deposit_balance", "minting_account"}
        BY <2>5, <3>3 DEF Refuted, Confirmed
      <3> QED
        BY <1>1, <3>1, <3>2, <3>3
    <2>7. OwnMemo(n) => InOrder(n.tx)'
      <3>1. OwnMemo(n) => InOrder(n.tx)
        BY <2>1, <2>5, OwnTells DEF OwnMemo
      <3>2. \A t : InOrder(t)' <=> InOrder(t)
        BY <2>2 DEF InOrder
      <3> QED
        BY <3>1, <3>2
    <2> QED
      BY <1>1, <2>2, <2>3, <2>4, <2>6, <2>7, HandledTells
  \* A transfer that the ledger handles, whether it is heard or not
  <1>2. ASSUME NEW reply, Handled(f, "transfer", reply), Executed(f),
               reply = Answer(flows[f].tx) \/ reply = Reply("MaybeFailed", 0)
        PROVE  SolventInv'
    <2>1. reply = Answer(flows[f].tx) \/ reply.kind = "MaybeFailed"
      BY <1>2 DEF Reply
    <2>2. CASE Answer(flows[f].tx).kind = "Ok"
      BY <1>2, <2>1, <2>2, ExecuteTells DEF Executed
    <2>3. CASE Answer(flows[f].tx).kind # "Ok"
      <3>1. UNCHANGED << blocks, funds >>
        BY <1>2, <2>3 DEF Executed
      <3> QED
        BY <1>1, <1>2, <2>1, <2>3, <3>1
    <2> QED
      BY <2>2, <2>3
  <1>3. CASE LedgerTransfers(f)
    BY <1>2, <1>3 DEF LedgerTransfers
  <1>4. CASE ReplyLost(f)
    BY <1>2, <1>4 DEF ReplyLost
  <1>5. CASE CallLost(f)
    <2>1. PICK kind \in {"MaybeFailed", "Unavailable"} : Handled(f, "transfer", Reply(kind, 0))
      BY <1>5 DEF CallLost
    <2>2. Reply(kind, 0).kind = kind
      BY DEF Reply
    <2> QED
      BY <1>1, <1>5, <2>1, <2>2 DEF CallLost
  <1>6. CASE LedgerReads(f)
    <2>1. PICK q \in Query :
            Handled(f, q, Reply("Value",
              CASE q = "deposit_balance" -> BalanceOf(Own("deposit"))
                [] q = "interim_balance" -> BalanceOf(flows[f].tx.interim)
                [] q = "minting_account" -> 0))
      BY <1>6 DEF LedgerReads
    <2>2. PICK reply : /\ Handled(f, q, reply)
                       /\ q = "interim_balance" => reply.value = BalanceOf(flows[f].tx.interim)
      BY <2>1 DEF Reply
    <2> QED
      BY <1>1, <1>6, <2>2 DEF LedgerReads, Query
  <1>7. CASE QueryLost(f)
    <2>1. PICK q \in FailingQueries : Handled(f, q, Reply("MaybeFailed", 0))
      BY <1>7 DEF QueryLost
    <2>2. Reply("MaybeFailed", 0).kind = "MaybeFailed" /\ q \in Query
      BY FailingAssumption DEF Reply
    <2> QED
      BY <1>1, <1>7, <2>1, <2>2 DEF QueryLost, Query
  <1> QED
    BY <1>3, <1>4, <1>5, <1>6, <1>7 DEF LedgerStep

-----------------------------------------------------------------------------

LEMMA SolventInvInit == FeeCovered /\ Init => SolventInv
  <1> SUFFICES ASSUME FeeCovered, Init PROVE SolventInv
    OBVIOUS
  <1>1. /\ flows = [f \in Flow |-> Idle] /\ recovery = {} /\ requests = << >> /\ balance = Funds
        /\ saved_fee = InitialFee /\ ledger_fee \in LedgerFees
    BY DEF Init
  <1>2. DOMAIN requests = {} /\ Len(requests) = 0
    BY <1>1
  <1>3. PaidInv
    BY <1>1, <1>2 DEF PaidInv, FeeCovered
  <1>4. \A f \in Flow : FlowTells(flows[f])
    BY <1>1, IdleTells
  <1>5. Covered
    <2>1. BalanceOf(Own("main")) = Funds
      BY DEF Init, BalanceOf, Own
    <2>2. PICK sums : sums = [k \in 0 .. 0 |-> 0]
      OBVIOUS
    <2>3. Adds(sums, AllOwed, 0) /\ sums[0] = 0
      BY <2>2 DEF Adds
    <2>4. BalanceOf(Own("main")) = balance + sums[0]
      BY <1>1, <2>1, <2>3, Constants
    <2> QED
      BY <1>2, <2>3, <2>4 DEF Covered
  <1> QED
    BY <1>1, <1>3, <1>4, <1>5 DEF SolventInv

LEMMA SolventInvNext ==
  ASSUME OneFee, TerminalInv, OnceInv, SolventInv, [Next]_vars
  PROVE  SolventInv'
  <1>1. CASE \E f \in Flow, amount \in Amounts : Deposit(f, amount) \/ Withdraw(f, amount)
    BY <1>1, DepositTells
  <1>2. CASE \E f \in Flow : DepositAll(f)
    BY <1>2, DepositAllTells
  <1>3. CASE \E f \in Flow : RecoverAll(f)
    BY <1>3, RecoverAllTells
  <1>4. CASE \E f \in Flow : Continue(f)
    BY <1>4, ContinueTells, DepositAllTells
  <1>5. CASE \E f \in Flow : LedgerStep(f)
    BY <1>5, LedgerStepTells
  <1>6. CASE \E fee \in AdminFees : SetFee(fee)
    BY <1>6, SetFeeTells
  <1>7. CASE LedgerFeeChanges
    BY <1>7, FeeIsOne DEF LedgerFeeChanges
  <1>8. CASE Tick
    BY <1>8, TickTells
  <1>9. CASE UNCHANGED vars
    <2>1. UNCHANGED << flows, recovery, saved_fee, ledger, clock, requests >> /\ Pays
      BY <1>9 DEF vars, canister, history, Pays, NoCredit
    <2>2. /\ \A f \in Flow : FlowTells(flows'[f])
          /\ \A t \in recovery' : InOrder(t)
          /\ saved_fee' >= ledger_fee
      BY <2>1 DEF SolventInv, PaidInv
    <2> QED
      BY <2>1, <2>2, CanisterTells
  <1> QED
    BY <1>1, <1>2, <1>3, <1>4, <1>5, <1>6, <1>7, <1>8, <1>9 DEF Next

(***************************************************************************)
(* The inductive invariant behind Solvent: replies tell flows the truth    *)
(* about the ledger, and the main account holds the user's balance and     *)
(* what is owed for each request.                                          *)
(***************************************************************************)
THEOREM SolventInvariant ==
  ASSUME OneFee, DistinctAmounts, FeeCovered
  PROVE  Spec => [](TerminalInv /\ OnceInv /\ SolventInv)
  <1>1. TerminalInv /\ OnceInv /\ SolventInv /\ [Next]_vars => SolventInv'
    BY SolventInvNext
  <1>2. Init => SolventInv
    BY SolventInvInit
  <1> QED
    BY <1>1, <1>2, OnceInvariant, PTL DEF Spec

(***************************************************************************)
(* The canister's main account always holds the user's balance, whatever   *)
(* replies are lost and however transfers are retried, rejected and        *)
(* recovered at the same time: with one fee of the ledger, a canister not  *)
(* configured with less, and amounts that differ.                          *)
(***************************************************************************)
THEOREM BalanceIsCovered ==
  ASSUME OneFee, DistinctAmounts, FeeCovered
  PROVE  Spec => []Solvent
  <1>1. TerminalInv /\ OnceInv /\ SolventInv => Solvent
    <2> SUFFICES ASSUME TerminalInv, SolventInv PROVE Solvent
      OBVIOUS
    <2>1. PICK sums : /\ Adds(sums, AllOwed, Len(requests))
                      /\ BalanceOf(Own("main")) = balance + sums[Len(requests)]
      BY DEF SolventInv, Covered
    <2>2. balance \in Nat /\ Len(requests) \in Nat
      BY DEF TerminalInv, CanisterInv, HistoryInv
    <2>3. sums[Len(requests)] \in Nat
      BY <2>1, <2>2 DEF Adds
    <2> QED
      BY <2>1, <2>2, <2>3 DEF Solvent
  <1> QED
    BY <1>1, SolventInvariant, PTL

-----------------------------------------------------------------------------
(* Every transfer is settled or kept *)

\* The list loses no transfer, since ids tell them apart.
LEMMA IdsDiffer ==
  ASSUME TerminalInv, OnceInv, SolventInv, Spaced, NEW t \in TransferRecord, NEW u \in TransferRecord,
         t.memo \in DOMAIN requests, u.memo \in DOMAIN requests, StepOf(t), StepOf(u),
         t.operation = u.operation, t.amount = u.amount
  PROVE  t.memo = u.memo
  <1>1. PICK m \in DOMAIN requests, k \in DOMAIN requests : m = t.memo /\ k = u.memo
    OBVIOUS
  <1>2. PICK a \in Nat, b \in Nat, fee \in Nat :
          a = requests[m].amount /\ b = requests[k].amount /\ fee = ledger_fee
    BY LedgerTyped, OwedTyped
  <1>3. a = b => m = k
    BY <1>2 DEF OnceInv, RequestsInv
  \* What the two steps of a request move
  <1>4. ASSUME NEW i \in DOMAIN requests, requests[i].stage = "First"
        PROVE  /\ Net(i) = requests[i].amount - ledger_fee /\ requests[i].amount > ledger_fee
               /\ requests[i].amount \in Amounts /\ requests[i].amount \in Nat
    <2>1. PICK w : w = WithFee(requests[i], ledger_fee)
      OBVIOUS
    <2>2. requests[i] \in TransferRecord /\ ledger_fee \in Nat
      BY LedgerTyped
    <2>3. w.stage = "First" /\ w.amount = requests[i].amount /\ w.fee = ledger_fee /\ w.amount \in Nat
      BY <1>4, <2>1, <2>2 DEF WithFee, TransferRecord
    <2>4. Valid(w)
      BY <2>1 DEF SolventInv, PaidInv
    <2>5. w.amount > 2 * w.fee
      BY <2>3, <2>4 DEF Valid, EffectiveFee
    <2>6. w.amount > w.fee
      BY <2>2, <2>3, <2>5
    <2>7. Net(i) = w.amount - w.fee
      BY <2>1, <2>6 DEF Net, AmountMinusFee
    <2>8. requests[i].operation = "CreditOnError"
      BY <1>4, <2>2, RequestShape DEF TransferRecord, Operation
    <2>9. requests[i].amount \in Amounts
      BY <2>8 DEF SolventInv, PaidInv
    <2> QED
      BY <2>3, <2>6, <2>7, <2>9
  <1>5. /\ t.stage # "Second" => t.amount = a /\ t.stage = requests[m].stage
        /\ t.stage = "Second" => t.amount = Net(m) /\ requests[m].stage = "First"
        /\ u.stage # "Second" => u.amount = b /\ u.stage = requests[k].stage
        /\ u.stage = "Second" => u.amount = Net(k) /\ requests[k].stage = "First"
        /\ requests[m].operation = requests[k].operation
    BY <1>1, <1>2 DEF StepOf
  <1>6. requests[m].stage = requests[k].stage
    BY <1>5, RequestShape
  <1>7. fee \in LedgerFees
    BY <1>2 DEF OnceInv
  <1>8. CASE t.stage # "Second" /\ u.stage # "Second"
    BY <1>1, <1>3, <1>5, <1>8
  <1>9. CASE t.stage = "Second" /\ u.stage = "Second"
    <2>1. a - fee = b - fee
      BY <1>2, <1>4, <1>5, <1>9
    <2> QED
      BY <1>1, <1>3, <2>1
  <1>10. CASE t.stage = "Second" /\ u.stage # "Second"
    <2>1. a - fee = b /\ a \in Amounts /\ b \in Amounts
      BY <1>2, <1>4, <1>5, <1>6, <1>10
    <2>2. a = b + fee
      BY <2>1
    <2> QED
      BY <1>7, <2>1, <2>2 DEF Spaced
  <1>11. CASE t.stage # "Second" /\ u.stage = "Second"
    <2>1. b - fee = a /\ a \in Amounts /\ b \in Amounts
      BY <1>2, <1>4, <1>5, <1>6, <1>11
    <2>2. b = a + fee
      BY <2>1
    <2> QED
      BY <1>7, <2>1, <2>2 DEF Spaced
  <1> QED
    BY <1>8, <1>9, <1>10, <1>11

\* Transfers of requests
Steps(list) == \A t \in list : t \in TransferRecord /\ t.memo \in DOMAIN requests /\ StepOf(t)

LEMMA ListSteps ==
  ASSUME TerminalInv, OnceInv
  PROVE  Steps(recovery)
  BY MemosKnown DEF Steps, OnceInv

LEMMA PushedKeeps ==
  ASSUME TerminalInv, OnceInv, SolventInv, Spaced, NEW list, Steps(list), NEW tx, Steps({tx})
  PROVE  \A m : Lists(list, m) \/ m = tx.memo => Lists(Pushed(list, tx), m)
  <1> SUFFICES ASSUME NEW m, Lists(list, m) \/ m = tx.memo PROVE Lists(Pushed(list, tx), m)
    OBVIOUS
  <1>1. tx \in Pushed(list, tx)
    BY DEF Pushed
  <1>2. CASE m = tx.memo
    BY <1>1, <1>2 DEF Lists
  <1>3. CASE m # tx.memo
    <2>1. PICK t \in list : t.memo = m
      BY <1>3 DEF Lists
    <2>2. Id(t) # Id(tx)
      <3>1. Id(t) = Id(tx) => t.operation = tx.operation /\ t.amount = tx.amount
        BY DEF Id
      <3> QED
        BY <1>3, <2>1, <3>1, IdsDiffer DEF Steps
    <2> QED
      BY <2>1, <2>2 DEF Pushed, Lists
  <1> QED
    BY <1>2, <1>3

LEMMA BlocksOfRequest ==
  ASSUME TerminalInv, OnceInv, NEW m \in DOMAIN requests
  PROVE  /\ FirstBlock(m).memo = m /\ FirstBlock(m).amount = Net(m)
         /\ requests[m].operation = "CreditOnSuccess" =>
              BlocksOf(m, "deposit") = IF Started(m) THEN {FirstBlock(m)} ELSE {}
         /\ requests[m].operation # "CreditOnSuccess" =>
              BlocksOf(m, "main") = IF Started(m) THEN {FirstBlock(m)} ELSE {}
         /\ ~ Started(m) => BlocksOf(m, "interim") = {}
  <1>1. PICK u : u = WithFee(requests[m], ledger_fee)
    OBVIOUS
  <1>2. requests[m] \in TransferRecord /\ requests[m].memo = m /\ requests[m].interim.kind = "interim"
    BY LedgerTyped, RequestShape
  <1>3. u.memo = m /\ u.stage = requests[m].stage
    BY <1>1, <1>2 DEF WithFee, TransferRecord
  <1>4. /\ FirstBlock(m).memo = m /\ FirstBlock(m).amount = Net(m) /\ FirstBlock(m).from = From(u)
    BY <1>1, <1>3 DEF FirstBlock, Block, Net
  <1>5. requests[m].stage = IF requests[m].operation = "CreditOnSuccess" THEN "Single" ELSE "First"
    BY RequestShape
  <1>6. From(u).kind = IF requests[m].operation = "CreditOnSuccess" THEN "deposit" ELSE "main"
    BY <1>3, <1>5 DEF From, Own
  <1>7. \A b \in blocks : b.memo = m =>
          b = FirstBlock(m) \/ (b.from.kind = "interim" /\ Started(m))
    BY <1>2 DEF OnceInv, BlocksInv
  <1> QED
    BY <1>4, <1>6, <1>7 DEF BlocksOf, Started

\* A transfer that ends as complete() and reject() let it end
LEMMA EndsSettled ==
  ASSUME TerminalInv, OnceInv, NEW m \in DOMAIN requests, UNCHANGED << blocks, requests >>,
         \/ /\ requests[m].operation = "CreditOnSuccess" /\ Started(m)
            /\ credits'[m] = << Net(m) >>
         \/ requests[m].operation = "CreditOnSuccess" /\ ~ Started(m) /\ credits'[m] = << >>
         \/ /\ requests[m].operation # "CreditOnSuccess" /\ Started(m) /\ BlocksOf(m, "interim") # {}
            /\ credits'[m] = << >>
         \/ /\ requests[m].operation # "CreditOnSuccess" /\ ~ Started(m)
            /\ credits'[m] = << requests[m].amount >>
  PROVE  Settled(m)'
  <1>1. \A kind : BlocksOf(m, kind)' = BlocksOf(m, kind)
    BY DEF BlocksOf
  <1>2. CASE requests[m].operation = "CreditOnSuccess" /\ Started(m) /\ credits'[m] = << Net(m) >>
    <2>1. BlocksOf(m, "deposit") = {FirstBlock(m)} /\ FirstBlock(m).amount = Net(m)
      BY <1>2, BlocksOfRequest
    <2>2. {b.amount : b \in BlocksOf(m, "deposit")'} = {Net(m)}
      BY <1>1, <2>1
    <2>3. {credits'[m][i] : i \in DOMAIN credits'[m]} = {Net(m)}
      BY <1>2
    <2> QED
      BY <1>2, <2>2, <2>3 DEF Settled
  <1>3. CASE requests[m].operation = "CreditOnSuccess" /\ ~ Started(m) /\ credits'[m] = << >>
    <2>1. BlocksOf(m, "deposit")' = {}
      BY <1>1, <1>3, BlocksOfRequest
    <2>2. {credits'[m][i] : i \in DOMAIN credits'[m]} = {}
      BY <1>3
    <2> QED
      BY <1>3, <2>1, <2>2 DEF Settled
  <1>4. CASE /\ requests[m].operation # "CreditOnSuccess" /\ Started(m) /\ BlocksOf(m, "interim") # {}
             /\ credits'[m] = << >>
    BY <1>1, <1>4, BlocksOfRequest DEF Settled
  <1>5. CASE /\ requests[m].operation # "CreditOnSuccess" /\ ~ Started(m)
             /\ credits'[m] = << requests[m].amount >>
    BY <1>1, <1>5, BlocksOfRequest DEF Settled
  <1> QED
    BY <1>2, <1>3, <1>4, <1>5

\* A request that nothing happens to
LEMMA DoneKept ==
  ASSUME NEW m, Done(m), \A kind : BlocksOf(m, kind)' = BlocksOf(m, kind),
         requests'[m] = requests[m], credits'[m] = credits[m], outcome'[m] = outcome[m],
         Expired(m) => Expired(m)'
  PROVE  Done(m)'
  <1>1. PICK now, then : now = {b.amount : b \in BlocksOf(m, "deposit")} /\ then = {b.amount : b \in BlocksOf(m, "deposit")'}
    OBVIOUS
  <1>2. PICK was, is : was = {credits[m][i] : i \in DOMAIN credits[m]} /\ is = {credits'[m][i] : i \in DOMAIN credits'[m]}
    OBVIOUS
  <1>3. now = then /\ was = is
    BY <1>1, <1>2
  <1>4. Settled(m)'
    BY <1>1, <1>2, <1>3 DEF Done, Settled
  <1> QED
    BY <1>4 DEF Done

LEMMA DoneStays ==
  ASSUME UNCHANGED << blocks, clock, requests >>, NEW m, Done(m), credits'[m] = credits[m], outcome'[m] = outcome[m]
  PROVE  Done(m)'
  <1>1. /\ \A kind : BlocksOf(m, kind)' = BlocksOf(m, kind)
        /\ Expired(m) => Expired(m)'
    BY DEF BlocksOf, Expired
  <1> QED
    BY <1>1, DoneKept

\* A deposit that is too old to be recovered is given up; it has the time that
\* it was made at, so it has expired.
LEMMA TooOldIsDone ==
  ASSUME TerminalInv, OnceInv, UNCHANGED << clock, requests >>, NEW u, StepOf(u), AsCreated(u), TooOld(u),
         clock \in Nat, u.created_at \in Nat, NEW k \in DOMAIN requests, k = u.memo, credits'[k] = << >>, outcome'[k] = "TooOld"
  PROVE  Done(k)'
  <1>1. requests[k].stage = "Single"
    BY DEF StepOf, TooOld
  <1>2. requests[k].operation = "CreditOnSuccess"
    BY <1>1, RequestShape
  <1>3. Expired(k)'
    <2>1. u.created_at = requests[k].created_at /\ ~ CanDeduplicate(u)
      BY DEF AsCreated, TooOld
    <2>2. clock - u.created_at >= DedupPeriod - TxWindow
      BY <2>1, Constants DEF CanDeduplicate
    <2> QED
      BY <2>1, <2>2 DEF Expired
  <1> QED
    BY <1>2, <1>3 DEF Done, Settled

LEMMA CreditedNow ==
  ASSUME TerminalInv, NEW m \in DOMAIN requests, credits[m] = << >>, NEW amount \in Nat, Credit(m, amount)
  PROVE  credits'[m] = << amount >> /\ \A k \in DOMAIN requests : k # m => credits'[k] = credits[k]
  <1>1. credits \in Seq(Seq(Nat)) /\ DOMAIN credits = DOMAIN requests
    BY DEF TerminalInv, HistoryInv
  <1>2. credits' = [credits EXCEPT ![m] = Append(@, amount)]
    BY DEF Credit
  <1>3. credits'[m] = Append(<< >>, amount)
    BY <1>1, <1>2
  <1>4. Append(<< >>, amount) = << amount >>
    OBVIOUS
  <1> QED
    BY <1>1, <1>2, <1>3, <1>4

\* A step of flow f that leaves it with n: every transfer that f had is with n,
\* in the list, or done.
LEMMA FlowSettles ==
  ASSUME TerminalInv, SettledInv, UNCHANGED << ledger, clock, requests >>, NEW f \in Flow, NEW n,
         flows' = [flows EXCEPT ![f] = n], n.reply = NoReply,
         \A k : Lists(recovery, k) => Lists(recovery', k) \/ Holds(n, k) \/ (k \in DOMAIN requests /\ Done(k)'),
         \A k \in DOMAIN requests : Holds(flows[f], k) => Holds(n, k) \/ Lists(recovery', k) \/ Done(k)',
         \A k \in DOMAIN requests : ~ Holds(flows[f], k) /\ ~ Lists(recovery, k) =>
           credits'[k] = credits[k] /\ outcome'[k] = outcome[k]
  PROVE  SettledInv'
  <1>1. flows \in [Flow -> FlowRecord] /\ blocks' = blocks /\ \A g \in Flow : Answered(flows[g])
    BY DEF TerminalInv, CanisterInv, ledger, SettledInv
  <1>2. \A g \in Flow : flows'[g] = IF g = f THEN n ELSE flows[g]
    BY <1>1
  <1>3. Answered(n)
    BY DEF Answered, NoReply
  <1>4. (\A g \in Flow : Answered(flows[g]))'
    BY <1>1, <1>2, <1>3
  <1>5. \A k : Lists(recovery', k) \/ (\E g \in Flow : Holds(flows'[g], k)) => Live(k)'
    BY DEF Lists, Holds, Live, Listed, HeldBy, OwnMemo
  <1>6. ASSUME NEW k \in DOMAIN requests PROVE Live(k)' \/ Done(k)'
    <2>1. CASE Lists(recovery, k) \/ Holds(flows[f], k)
      BY <1>2, <1>5, <2>1
    <2>2. CASE \E g \in Flow : g # f /\ Holds(flows[g], k)
      BY <1>2, <1>5, <2>2
    <2>3. CASE ~ Lists(recovery, k) /\ \A g \in Flow : ~ Holds(flows[g], k)
      <3>1. ~ Live(k)
        BY <2>3, HeldByHolds DEF Live, Listed, Lists
      <3>2. Done(k)
        BY <3>1 DEF SettledInv
      <3> QED
        BY <1>1, <2>3, <3>2, DoneStays
    <2> QED
      BY <2>1, <2>2, <2>3
  <1> QED
    BY <1>4, <1>6 DEF SettledInv

\* What becomes of the transfers that recover_all took
LEMMA ReturnGoesOn ==
  ASSUME TerminalInv, NEW f \in Flow, NEW fee \in Nat, NEW memo, NEW result, Return(f, fee, memo, result)
  PROVE  /\ \E n : /\ flows' = [flows EXCEPT ![f] = n] /\ n.reply = NoReply
                   /\ \A u \in flows[f].queue : TooOld(u) \/ Holds(n, u.memo)
         /\ \A k \in DOMAIN requests :
              outcome'[k] = IF k = memo THEN result
                            ELSE IF \E u \in flows[f].queue : TooOld(u) /\ u.memo = k THEN "TooOld" ELSE outcome[k]
  <1> DEFINE queue == flows[f].queue
             late == {t \in queue : TooOld(t)}
  <1>1. DOMAIN outcome = DOMAIN requests
    BY DEF TerminalInv, HistoryInv
  <1>2. outcome' = [m \in DOMAIN outcome |->
            IF m = memo THEN result
            ELSE IF \E t \in late : t.memo = m THEN "TooOld" ELSE outcome[m]]
    BY DEF Return
  <1>3. \A k \in DOMAIN requests :
          outcome'[k] = IF k = memo THEN result
                        ELSE IF \E u \in queue : TooOld(u) /\ u.memo = k THEN "TooOld" ELSE outcome[k]
    BY <1>1, <1>2
  <1>4. CASE queue = late
    <2>1. flows' = [flows EXCEPT ![f] = Idle] /\ Idle.reply = NoReply
      BY <1>4 DEF Return, Idle
    <2>2. \A u \in queue : TooOld(u)
      BY <1>4
    <2> QED
      BY <1>3, <2>1, <2>2
  <1>5. CASE queue # late
    <2>1. PICK t \in queue \ late :
            flows' = [flows EXCEPT ![f] = [Recover(f, t) EXCEPT !.fee = fee, !.queue = queue \ (late \cup {t})]]
      BY <1>5 DEF Return
    <2>2. PICK n : n = [Recover(f, t) EXCEPT !.fee = fee, !.queue = queue \ (late \cup {t})]
      OBVIOUS
    <2>3. flows[f] \in FlowRecord /\ t \in TransferRecord /\ clock \in Nat
      BY Typed
    <2>4. /\ Recover(f, t) \in FlowRecord /\ Recover(f, t).call \in {"transfer", "interim_balance"}
          /\ Recover(f, t).tx = t /\ Recover(f, t).reply = NoReply
      BY <2>3, RecoverFlow
    <2>5. /\ n.reply = NoReply /\ n.call \in {"transfer", "interim_balance"} /\ n.tx = t
          /\ n.queue = queue \ (late \cup {t})
      BY <2>2, <2>4 DEF FlowRecord
    <2>6. \A u \in queue : TooOld(u) \/ Holds(n, u.memo)
      BY <2>5 DEF Holds, OwnMemo
    <2> QED
      BY <1>3, <2>1, <2>2, <2>5, <2>6
  <1> QED
    BY <1>4, <1>5

LEMMA ReturnSettles ==
  ASSUME TerminalInv, OnceInv, SettledInv, AsCreatedInv, UNCHANGED << ledger, clock, requests >>, NEW f \in Flow, OwnMemo(flows[f]),
         NEW fee \in Nat, NEW m, m = flows[f].tx.memo, NEW result, Return(f, fee, m, result),
         \A k \in DOMAIN requests : k # m => credits'[k] = credits[k],
         \A k : Lists(recovery, k) => Lists(recovery', k),
         Lists(recovery', m) \/ (Settled(m)' /\ result # "Recoverable")
  PROVE  SettledInv'
  <1>1. PICK n : /\ flows' = [flows EXCEPT ![f] = n] /\ n.reply = NoReply
                 /\ \A u \in flows[f].queue : TooOld(u) \/ Holds(n, u.memo)
    BY ReturnGoesOn
  <1>2. \A k \in DOMAIN requests :
          outcome'[k] = IF k = m THEN result
                        ELSE IF \E u \in flows[f].queue : TooOld(u) /\ u.memo = k THEN "TooOld" ELSE outcome[k]
    BY ReturnGoesOn
  <1>3. ASSUME NEW k \in DOMAIN requests, Holds(flows[f], k)
        PROVE  Holds(n, k) \/ Lists(recovery', k) \/ Done(k)'
    <2>1. CASE k = m
      BY <1>2, <2>1 DEF Done
    <2>2. CASE k # m
      <3>1. PICK u \in flows[f].queue : u.memo = k
        BY <1>3, <2>2 DEF Holds
      <3>2. CASE TooOld(u)
        <4>1. StepOf(u) /\ AsCreated(u) /\ clock \in Nat /\ u.created_at \in Nat
          <5>1. u \in TransferRecord /\ clock \in Nat
            BY <3>1, Typed
          <5> QED
            BY <3>1, <5>1 DEF OnceInv, FlowOnce, AsCreatedInv, FlowAsCreated, TransferRecord
        <4>2. credits'[k] = << >>
          <5>1. k \in Nat /\ HeldBy(f, k)
            BY <1>3, LedgerTyped, HeldByHolds
          <5>2. credits[k] = << >>
            BY <5>1 DEF TerminalInv, OwnerInv, Live
          <5> QED
            BY <2>2, <5>2
        <4>3. outcome'[k] = "TooOld"
          BY <1>2, <2>2, <3>1, <3>2
        <4> QED
          BY <3>1, <3>2, <4>1, <4>2, <4>3, TooOldIsDone
      <3>3. CASE ~ TooOld(u)
        BY <1>1, <3>1, <3>3
      <3> QED
        BY <3>2, <3>3
    <2> QED
      BY <2>1, <2>2
  <1>4. \A k \in DOMAIN requests : ~ Holds(flows[f], k) => credits'[k] = credits[k] /\ outcome'[k] = outcome[k]
    <2>1. Holds(flows[f], m) /\ \A u \in flows[f].queue : Holds(flows[f], u.memo)
      BY DEF Holds
    <2> QED
      BY <1>2, <2>1
  <1> QED
    BY <1>1, <1>3, <1>4, FlowSettles

\* The transfer of a flow is a step of a request that has not been credited.
LEMMA OwnRequest ==
  ASSUME TerminalInv, OnceInv, NEW f \in Flow, OwnMemo(flows[f]), NEW m, m = flows[f].tx.memo
  PROVE  /\ m \in DOMAIN requests /\ credits[m] = << >> /\ Steps({flows[f].tx}) /\ Holds(flows[f], m)
         /\ flows[f].tx.operation = requests[m].operation
         /\ flows[f].tx.stage = "Single" <=> requests[m].operation = "CreditOnSuccess"
  <1>1. Steps({flows[f].tx}) /\ Holds(flows[f], m) /\ m \in DOMAIN requests
    BY OwnStep DEF Steps, Holds
  <1>2. flows[f].tx \in TransferRecord /\ StepOf(flows[f].tx)
    BY OwnStep
  <1>3. requests[m].stage = IF requests[m].operation = "CreditOnSuccess" THEN "Single" ELSE "First"
    BY <1>1, RequestShape
  <1>4. /\ flows[f].tx.operation = requests[m].operation
        /\ flows[f].tx.stage = "Single" <=> requests[m].operation = "CreditOnSuccess"
    BY <1>2, <1>3 DEF StepOf
  <1> QED
    BY <1>1, <1>4, OwnOwed

LEMMA CompleteSettles ==
  ASSUME TerminalInv, OnceInv, SolventInv, SettledInv, AsCreatedInv, UNCHANGED << ledger, clock, requests >>, NEW f \in Flow,
         OwnMemo(flows[f]), NEW n \in 1 .. NRetries, Complete(f, flows[f].tx, n), NEW m, m = flows[f].tx.memo,
         IF flows[f].tx.stage = "Second" THEN BlocksOf(m, "interim") # {} ELSE Started(m)
  PROVE  SettledInv'
  <1> DEFINE tx == flows[f].tx
             second == NextStep(tx, clock)
  <1>1. /\ m \in DOMAIN requests /\ credits[m] = << >> /\ Holds(flows[f], m)
        /\ tx.operation = requests[m].operation
        /\ tx.stage = "Single" <=> requests[m].operation = "CreditOnSuccess"
    BY OwnRequest
  <1>2. /\ flows[f] \in FlowRecord /\ tx \in TransferRecord /\ StepOf(tx) /\ clock \in Nat /\ flows[f].fee \in Nat
        /\ requests[m] \in TransferRecord /\ ledger_fee \in Nat
    BY OwnStep
  <1>3. recovery' = recovery
    BY DEF Complete
  <1>4. Started(m)
    BY <1>2 DEF StepOf
  <1>5. CASE tx.stage = "First"
    <2>1. Valid(second)
      <3>1. PICK w : w = WithFee(requests[m], ledger_fee)
        OBVIOUS
      <3>2. tx.amount = requests[m].amount /\ tx.fee = ledger_fee /\ requests[m].stage = "First"
        BY <1>2, <1>4, <1>5 DEF StepOf
      <3>3. w.stage = "First" /\ w.amount = tx.amount /\ w.fee = tx.fee /\ tx.amount \in Nat /\ tx.fee \in Nat
        BY <1>2, <3>1, <3>2 DEF WithFee, TransferRecord
      <3>4. Valid(w)
        BY <1>1, <3>1 DEF SolventInv, PaidInv
      <3>5. tx.amount > 2 * tx.fee
        BY <3>3, <3>4 DEF Valid, EffectiveFee
      <3>6. AmountMinusFee(tx) > tx.fee
        BY <3>3, <3>5 DEF AmountMinusFee
      <3>7. second.stage = "Second" /\ second.amount = AmountMinusFee(tx) /\ second.fee = tx.fee
        BY <1>2 DEF NextStep, TransferRecord
      <3> QED
        BY <3>6, <3>7 DEF Valid, EffectiveFee
    <2>2. /\ flows' = [flows EXCEPT ![f] = Send(f, second, n, FALSE)] /\ credits' = credits /\ outcome' = outcome
      BY <1>5, <2>1 DEF Complete, NoCredit
    <2>3. PICK r : r = Send(f, second, n, FALSE)
      OBVIOUS
    <2>4. r.reply = NoReply /\ r.call = "transfer" /\ r.tx = second /\ r.queue = flows[f].queue
      BY <1>2, <2>3 DEF Send, FlowRecord
    <2>5. r.tx.memo = tx.memo
      BY <1>2, <2>4 DEF NextStep, TransferRecord
    <2>6. \A k : Holds(flows[f], k) => Holds(r, k)
      BY <2>4, <2>5 DEF Holds, OwnMemo
    <2> QED
      BY <1>3, <2>2, <2>3, <2>4, <2>6, FlowSettles
  <1>6. CASE tx.stage # "First"
    <2>1. Return(f, flows[f].fee, m, "Ok")
      BY <1>6 DEF Complete
    <2>2. /\ Settled(m)'
          /\ \A k \in DOMAIN requests : k # m => credits'[k] = credits[k]
      <3>1. CASE tx.operation = "CreditOnSuccess"
        <4>1. Credit(m, AmountMinusFee(tx))
          BY <1>6, <3>1 DEF Complete
        <4>2. AmountMinusFee(tx) = Owed(m)
          BY <1>4, <3>1, OwnOwed
        <4>3. Owed(m) = Net(m)
          BY <1>1, <1>4, <3>1 DEF Owed
        <4>4. PICK amount \in Nat : amount = Net(m)
          BY <1>1, OwedTyped
        <4>5. credits'[m] = << amount >> /\ \A k \in DOMAIN requests : k # m => credits'[k] = credits[k]
          BY <1>1, <4>1, <4>2, <4>3, <4>4, CreditedNow
        <4>6. Settled(m)'
          BY <1>1, <1>4, <3>1, <4>4, <4>5, EndsSettled DEF ledger
        <4> QED
          BY <4>5, <4>6
      <3>2. CASE tx.operation # "CreditOnSuccess"
        <4>1. credits' = credits
          BY <1>6, <3>2 DEF Complete, NoCredit
        <4>2. tx.stage = "Second"
          BY <1>1, <1>2, <1>6, <3>2 DEF TransferRecord, Stage
        <4>3. Settled(m)'
          BY <1>1, <1>4, <3>2, <4>1, <4>2, EndsSettled DEF ledger
        <4> QED
          BY <4>1, <4>3
      <3> QED
        BY <3>1, <3>2
    <2> QED
      BY <1>2, <1>3, <2>1, <2>2, ReturnSettles
  <1> QED
    BY <1>5, <1>6

LEMMA RejectSettles ==
  ASSUME TerminalInv, OnceInv, SolventInv, SettledInv, AsCreatedInv, Spaced, UNCHANGED << ledger, clock, requests >>, NEW f \in Flow,
         OwnMemo(flows[f]), Reject(f, flows[f].tx), NEW m, m = flows[f].tx.memo,
         flows[f].tx.stage # "Second" => ~ Started(m)
  PROVE  SettledInv'
  <1> DEFINE tx == flows[f].tx
  <1>1. /\ m \in DOMAIN requests /\ credits[m] = << >> /\ Steps({tx}) /\ flows[f].fee \in Nat
        /\ tx.operation = requests[m].operation
    BY OwnRequest, Typed
  <1>2. CASE tx.stage = "Second"
    <2>1. /\ recovery' = Pushed(recovery, tx) /\ credits' = credits
          /\ Return(f, flows[f].fee, m, "Recoverable")
      BY <1>2 DEF Reject, NoCredit
    <2>2. \A k : Lists(recovery, k) \/ k = m => Lists(recovery', k)
      BY <1>1, <2>1, ListSteps, PushedKeeps
    <2> QED
      BY <1>1, <2>1, <2>2, ReturnSettles
  <1>3. CASE tx.stage # "Second"
    <2>1. recovery' = recovery /\ Return(f, flows[f].fee, m, "TransferFailed")
      BY <1>3 DEF Reject
    <2>2. /\ Settled(m)'
          /\ \A k \in DOMAIN requests : k # m => credits'[k] = credits[k]
      <3>1. CASE tx.operation = "CreditOnError"
        <4>1. Credit(m, tx.amount)
          BY <1>3, <3>1 DEF Reject
        <4>2. tx.amount = requests[m].amount /\ requests[m].amount \in Nat
          BY <1>1, <1>3, OwedTyped DEF Steps, StepOf
        <4>3. PICK amount \in Nat : amount = requests[m].amount
          BY <4>2
        <4>4. credits'[m] = << amount >> /\ \A k \in DOMAIN requests : k # m => credits'[k] = credits[k]
          BY <1>1, <4>1, <4>2, <4>3, CreditedNow
        <4>5. Settled(m)'
          BY <1>1, <1>3, <3>1, <4>3, <4>4, EndsSettled DEF ledger
        <4> QED
          BY <4>4, <4>5
      <3>2. CASE tx.operation # "CreditOnError"
        <4>1. credits' = credits
          BY <1>3, <3>2 DEF Reject, NoCredit
        <4>2. requests[m].operation = "CreditOnSuccess"
          BY <1>1, <3>2 DEF Steps, TransferRecord, Operation
        <4>3. Settled(m)'
          BY <1>1, <1>3, <4>1, <4>2, EndsSettled DEF ledger
        <4> QED
          BY <4>1, <4>3
      <3> QED
        BY <3>1, <3>2
    <2> QED
      BY <1>1, <2>1, <2>2, ReturnSettles
  <1> QED
    BY <1>2, <1>3

LEMMA RetrySettles ==
  ASSUME TerminalInv, OnceInv, SolventInv, SettledInv, AsCreatedInv, Spaced, UNCHANGED << ledger, clock, requests >>, NEW f \in Flow,
         OwnMemo(flows[f]), NEW fee \in Nat, NEW tx, tx.memo = flows[f].tx.memo, Steps({tx}), NEW n,
         NEW list, Steps(list), \A k : Lists(recovery, k) => Lists(list, k), Retry(f, fee, tx, n, list)
  PROVE  SettledInv'
  <1>1. flows[f] \in FlowRecord /\ credits' = credits
    BY Typed DEF Retry, NoCredit
  <1>2. CASE n = 0
    <2>1. recovery' = Pushed(list, tx) /\ Return(f, fee, tx.memo, "Recoverable")
      BY <1>2 DEF Retry
    <2>2. \A k : Lists(recovery, k) \/ k = tx.memo => Lists(recovery', k)
      BY <2>1, PushedKeeps
    <2> QED
      BY <1>1, <2>1, <2>2, ReturnSettles
  <1>3. CASE n # 0
    <2>1. PICK r : r = [Send(f, tx, n, TRUE) EXCEPT !.fee = fee, !.since = flows[f].since]
      OBVIOUS
    <2>2. recovery' = list /\ flows' = [flows EXCEPT ![f] = r] /\ outcome' = outcome
      BY <1>3, <2>1 DEF Retry
    <2>3. r.call = "transfer" /\ r.tx = tx /\ r.reply = NoReply /\ r.queue = flows[f].queue
      BY <1>1, <2>1 DEF Send, FlowRecord
    <2>4. \A k : Holds(flows[f], k) => Holds(r, k)
      BY <2>3 DEF Holds, OwnMemo
    <2> QED
      BY <1>1, <2>2, <2>3, <2>4, FlowSettles
  <1> QED
    BY <1>2, <1>3

LEMMA ContinueSettles ==
  ASSUME TerminalInv, OnceInv, SolventInv, SettledInv, AsCreatedInv, Spaced, RecoveryAnswered, NEW f \in Flow,
         Continue(f)
  PROVE  SettledInv' \/ OnDepositBalance(f)
  <1>1. PICK tx, m : tx = flows[f].tx /\ m = flows[f].tx.memo
    OBVIOUS
  <1>2. /\ flows[f].retries \in 0 .. NRetries /\ CleanFlow(flows[f]) /\ flows[f] \in FlowRecord
        /\ flows[f].fee \in Nat /\ clock \in Nat /\ tx \in TransferRecord
    BY <1>1, Typed
  <1>3. NRetries \in 1 .. NRetries
    BY Constants
  <1>4. FlowTells(flows[f])
    BY OwnTells
  <1>5. CASE OnSuccess(f)
    <2>1. /\ flows[f].call = "transfer" /\ Complete(f, flows[f].tx, flows[f].retries)
          /\ UNCHANGED << ledger, clock, requests >> /\ flows[f].reply.kind \in {"Ok", "Duplicate"}
      BY <1>5 DEF OnSuccess, OnTransfer, Replied
    <2>2. flows[f].retries \in 1 .. NRetries /\ OwnMemo(flows[f])
      BY <1>2, <2>1, Constants DEF CleanFlow, OwnMemo
    <2>3. IF flows[f].tx.stage = "Second" THEN BlocksOf(m, "interim") # {} ELSE Started(m)
      BY <1>1, <1>4, <2>1 DEF FlowTells, Confirmed
    <2> QED
      BY <1>1, <2>1, <2>2, <2>3, CompleteSettles
  <1>6. CASE OnUnknown(f)
    <2>1. /\ flows[f].call = "transfer" /\ UNCHANGED << ledger, clock, requests >>
          /\ Retry(f, flows[f].fee, tx, flows[f].retries - 1, recovery)
      BY <1>1, <1>6 DEF OnUnknown, OnTransfer, Replied
    <2>2. OwnMemo(flows[f])
      BY <2>1 DEF OwnMemo
    <2>3. Steps({tx}) /\ Steps(recovery)
      BY <1>1, <2>2, OwnRequest, ListSteps
    <2> QED
      BY <1>1, <1>2, <2>1, <2>2, <2>3, RetrySettles
  \* The ledger does not answer with another fee.
  <1>7. ~ OnWrongFee(f) /\ ~ OnMintingAccount(f)
    BY DEF OnWrongFee, OnTransfer, OnMintingAccount, Replied, AsCreatedInv, FlowAsCreated
  <1>8. CASE OnRejected(f)
    <2>1. /\ flows[f].call = "transfer" /\ UNCHANGED << ledger, clock, requests >> /\ Reject(f, flows[f].tx)
          /\ \/ flows[f].reply.kind \in {"InsufficientFunds", "TooOld"}
             \/ flows[f].reply.kind \in {"Duplicate", "Unavailable"} /\ ~ flows[f].recovering
      BY <1>8 DEF OnRejected, OnTransfer, Replied
    <2>2. flows[f].tx.stage # "Second" => ~ Started(m)
      BY <1>1, <1>4, <2>1 DEF FlowTells, Refuted
    <2> QED
      BY <1>1, <2>1, <2>2, RejectSettles DEF OwnMemo
  <1>9. CASE OnInterimBalance(f)
    <2>1. /\ flows[f].call = "interim_balance" /\ UNCHANGED << ledger, clock, requests >>
          /\ RecoverOldTx(f, flows[f].tx, flows[f].reply.value) /\ flows[f].reply.kind = "Value"
      BY <1>9 DEF OnInterimBalance, Replied
    <2>2. OwnMemo(flows[f])
      BY <2>1 DEF OwnMemo
    <2>3. CASE flows[f].tx.stage = "First" /\ flows[f].reply.value = 0 /\ Reject(f, flows[f].tx)
      <3>1. ~ Started(m)
        BY <1>1, <1>4, <2>1, <2>3 DEF FlowTells, Refuted
      <3> QED
        BY <1>1, <2>1, <2>2, <2>3, <3>1, RejectSettles
    <2>4. CASE flows[f].tx.stage = "First" /\ flows[f].reply.value # 0 /\ Complete(f, flows[f].tx, NRetries)
      <3>1. Started(m)
        BY <1>1, <2>1, <2>2, <2>4, OwnStep DEF TrueReply
      <3> QED
        BY <1>1, <1>3, <2>1, <2>2, <2>4, <3>1, CompleteSettles
    <2>5. CASE flows[f].tx.stage = "Second" /\ flows[f].reply.value = 0 /\ Complete(f, flows[f].tx, NRetries)
      <3>1. BlocksOf(m, "interim") # {}
        BY <1>1, <1>4, <2>1, <2>5 DEF FlowTells, Confirmed
      <3> QED
        BY <1>1, <1>3, <2>1, <2>2, <2>5, <3>1, CompleteSettles
    <2>6. CASE /\ recovery' = recovery /\ credits' = credits /\ outcome' = outcome
               /\ flows' = [flows EXCEPT ![f] = Send(f, Renew(tx, clock), NRetries, TRUE)]
      <3>1. PICK r : r = Send(f, Renew(tx, clock), NRetries, TRUE)
        OBVIOUS
      <3>2. r.call = "transfer" /\ r.reply = NoReply /\ r.queue = flows[f].queue /\ r.tx = Renew(tx, clock)
        BY <1>2, <3>1 DEF Send, FlowRecord
      <3>3. r.tx.memo = flows[f].tx.memo
        BY <1>1, <1>2, <3>2 DEF Renew, TransferRecord
      <3>4. \A k : Holds(flows[f], k) => Holds(r, k)
        BY <3>2, <3>3 DEF Holds, OwnMemo
      <3> QED
        BY <2>1, <2>6, <3>1, <3>2, <3>4, FlowSettles
    <2> QED
      BY <1>1, <2>1, <2>3, <2>4, <2>5, <2>6 DEF RecoverOldTx
  <1>10. CASE OnQueryFailed(f)
    <2>1. Answered(flows[f]) /\ flows[f].reply.kind = "MaybeFailed" /\ flows[f].call \in Query
      BY <1>10 DEF OnQueryFailed, Replied, SettledInv
    <2>2. flows[f].call = "deposit_balance"
      BY <2>1 DEF Answered, RecoveryAnswered
    <2>3. /\ flows' = [flows EXCEPT ![f] = Idle] /\ Idle.reply = NoReply
          /\ UNCHANGED << recovery, ledger, clock, requests, credits, outcome >>
      BY <1>10, <2>2 DEF OnQueryFailed, NoCredit, Idle
    <2>4. \A k : ~ Holds(flows[f], k)
      BY <1>2, <2>2 DEF CleanFlow, Holds, OwnMemo
    <2> QED
      BY <2>3, <2>4, FlowSettles
  <1> QED
    BY <1>5, <1>6, <1>7, <1>8, <1>9, <1>10 DEF Continue

LEMMA LiveIs ==
  \A k : /\ Live(k) <=> Lists(recovery, k) \/ \E g \in Flow : Holds(flows[g], k)
         /\ Live(k)' <=> Lists(recovery', k) \/ \E g \in Flow : Holds(flows'[g], k)
  BY DEF Lists, Holds, Live, Listed, HeldBy, OwnMemo

\* A new transfer is under way.
LEMMA BeginSettles ==
  ASSUME TerminalInv, SettledInv, NEW f \in Flow, flows[f].call \in {"None", "deposit_balance"},
         NEW tx \in TransferRecord, tx.memo = Len(requests) + 1, Begin(f, tx)
  PROVE  SettledInv'
  <1>1. PICK l \in Nat : l = Len(requests) /\ DOMAIN requests = 1 .. l /\ requests \in Seq(TransferRecord)
    BY DEF TerminalInv, HistoryInv
  <1>2. /\ requests' = Append(requests, tx) /\ credits' = Append(credits, << >>) /\ blocks' = blocks
        /\ outcome' = Append(outcome, "Pending") /\ recovery' = recovery /\ clock' = clock
    BY DEF Begin, ledger
  <1>3. /\ \A m \in DOMAIN requests : requests'[m] = requests[m]
        /\ \A m \in DOMAIN requests' : m = l + 1 \/ m \in DOMAIN requests
    BY <1>1, <1>2
  <1>4. \A m \in DOMAIN requests : credits'[m] = credits[m] /\ outcome'[m] = outcome[m]
    <2>1. credits \in Seq(Seq(Nat)) /\ Len(credits) = l /\ outcome \in Seq(Outcome) /\ Len(outcome) = l
      BY <1>1 DEF TerminalInv, HistoryInv
    <2> QED
      BY <1>1, <1>2, <2>1
  <1>5. PICK n : n = [Send(f, tx, NRetries, FALSE) EXCEPT !.fee = tx.fee]
    OBVIOUS
  <1>6. /\ flows[f] \in FlowRecord /\ flows[f].queue = {}
        /\ \A g \in Flow : flows'[g] = IF g = f THEN n ELSE flows[g]
    BY <1>5, Typed DEF CleanFlow, TerminalInv, CanisterInv, Begin
  <1>7. n.call = "transfer" /\ n.tx = tx /\ n.reply = NoReply
    BY <1>5, <1>6 DEF Send, FlowRecord
  <1>8. Holds(n, l + 1) /\ Answered(n) /\ \A k : ~ Holds(flows[f], k)
    BY <1>1, <1>6, <1>7 DEF Holds, OwnMemo, Answered, Query
  <1>9. (\A g \in Flow : Answered(flows[g]))'
    BY <1>6, <1>8 DEF SettledInv
  <1>10. ASSUME NEW k \in DOMAIN requests' PROVE Live(k)' \/ Done(k)'
    <2>1. CASE k = l + 1
      BY <1>6, <1>8, <2>1, LiveIs
    <2>2. CASE k # l + 1 /\ Live(k)
      BY <1>2, <1>6, <1>8, <2>2, LiveIs
    <2>3. CASE k # l + 1 /\ ~ Live(k)
      <3>1. Done(k) /\ k \in DOMAIN requests
        BY <1>3, <2>3 DEF SettledInv
      <3>2. /\ \A kind : BlocksOf(k, kind)' = BlocksOf(k, kind)
            /\ Expired(k) => Expired(k)'
        BY <1>2, <1>3, <3>1 DEF BlocksOf, Expired
      <3> QED
        BY <1>3, <1>4, <3>1, <3>2, DoneKept
    <2> QED
      BY <2>1, <2>2, <2>3
  <1> QED
    BY <1>9, <1>10 DEF SettledInv

LEMMA DepositSettles ==
  ASSUME TerminalInv, SettledInv, NEW f \in Flow, NEW amount \in Amounts,
         Deposit(f, amount) \/ Withdraw(f, amount)
  PROVE  SettledInv'
  <1>1. amount \in Nat /\ saved_fee \in Nat /\ clock \in Nat /\ flows[f].call = "None"
    BY Constants, ListTyped, LedgerTyped DEF Deposit, Withdraw, Busy
  <1>2. PICK op \in Operation : Begin(f, New(op, amount))
    BY DEF Deposit, Withdraw, Operation
  <1>3. PICK next \in Nat : next = Len(requests) + 1
    BY DEF TerminalInv, HistoryInv
  <1>4. PICK tx : tx = NewTransfer(op, amount, saved_fee, clock, next)
    OBVIOUS
  <1>5. tx \in TransferRecord /\ tx.memo = next
    BY <1>1, <1>4, NewTransferType DEF NewTransfer
  <1> QED
    BY <1>1, <1>2, <1>3, <1>4, <1>5, BeginSettles DEF New

LEMMA DepositAllSettles ==
  ASSUME TerminalInv, SettledInv, NEW f \in Flow, DepositAll(f) \/ OnDepositBalance(f)
  PROVE  SettledInv'
  <1>1. flows[f].call \in {"None", "deposit_balance"}
    BY DEF DepositAll, OnDepositBalance, Replied, Busy
  <1>2. \A k : ~ Holds(flows[f], k)
    BY <1>1, Typed DEF CleanFlow, Holds, OwnMemo
  \* The flow waits for the balance, or gives up.
  <1>3. ASSUME NEW n, n.reply = NoReply, flows' = [flows EXCEPT ![f] = n],
               UNCHANGED << recovery, ledger, clock, history >>
        PROVE  SettledInv'
    BY <1>2, <1>3, FlowSettles DEF history
  <1>4. CASE DepositAll(f)
    <2>1. PICK n : n = [Idle EXCEPT !.call = "deposit_balance", !.fee = saved_fee]
      OBVIOUS
    <2>2. n.reply = NoReply
      BY <2>1 DEF Idle
    <2> QED
      BY <1>3, <1>4, <2>1, <2>2 DEF DepositAll
  <1>5. CASE OnDepositBalance(f)
    <2>1. PICK amount \in Nat, fee \in Nat, next \in Nat :
            amount = flows[f].reply.value /\ fee = flows[f].fee /\ next = Len(requests) + 1
      <3>1. flows[f] \in FlowRecord /\ requests \in Seq(TransferRecord)
        BY Typed DEF TerminalInv, HistoryInv
      <3> QED
        BY <3>1 DEF FlowRecord, ReplyRecord
    <2>2. PICK tx : tx = NewTransfer("CreditOnSuccess", amount, fee, clock, next)
      OBVIOUS
    <2>3. tx \in TransferRecord /\ tx.memo = next
      <3>1. "CreditOnSuccess" \in Operation /\ clock \in Nat
        BY LedgerTyped DEF Operation
      <3> QED
        BY <2>2, <3>1, NewTransferType DEF NewTransfer
    <2>4. \/ Begin(f, tx)
          \/ flows' = [flows EXCEPT ![f] = Idle] /\ UNCHANGED << recovery, ledger, clock, history >>
      BY <1>5, <2>1, <2>2 DEF OnDepositBalance
    <2>5. CASE Begin(f, tx)
      BY <1>1, <2>1, <2>3, <2>5, BeginSettles
    <2>6. CASE flows' = [flows EXCEPT ![f] = Idle] /\ UNCHANGED << recovery, ledger, clock, history >>
      BY <1>3, <2>6 DEF Idle
    <2> QED
      BY <2>4, <2>5, <2>6
  <1> QED
    BY <1>4, <1>5

\* Only deposits are too old to be recovered, and they have expired or were not
\* executed.
OldAreDeposits(list) ==
  \A t \in list : /\ t \in TransferRecord /\ t.memo \in DOMAIN requests
                  /\ TooOld(t) => /\ requests[t.memo].operation = "CreditOnSuccess"
                                  /\ Expired(t.memo) \/ BlocksOf(t.memo, "deposit") = {}

\* A deposit that is given up
LEMMA GivenUpIsDone ==
  ASSUME UNCHANGED << blocks, clock, requests >>, NEW k, requests[k].operation = "CreditOnSuccess",
         credits'[k] = << >>, outcome'[k] = "TooOld", Expired(k) \/ BlocksOf(k, "deposit") = {}
  PROVE  Done(k)'
  <1>1. CASE Expired(k)
    <2>1. Expired(k)'
      BY <1>1 DEF Expired
    <2> QED
      BY <2>1 DEF Done, Settled
  <1>2. CASE BlocksOf(k, "deposit") = {}
    <2>1. BlocksOf(k, "deposit")' = {}
      BY <1>2 DEF BlocksOf
    <2>2. {b.amount : b \in BlocksOf(k, "deposit")'} = {} /\ {credits'[k][i] : i \in DOMAIN credits'[k]} = {}
      BY <2>1
    <2> QED
      BY <2>2 DEF Done, Settled
  <1> QED
    BY <1>1, <1>2

\* recover_all takes every transfer of the list, or gives it up.
LEMMA RecoverAllSettles ==
  ASSUME TerminalInv, SettledInv, OldAreDeposits(recovery), NEW f \in Flow, RecoverAll(f)
  PROVE  SettledInv'
  <1> DEFINE late == {t \in recovery : TooOld(t)}
  <1>1. UNCHANGED << ledger, clock, requests, credits >> /\ flows[f].call = "None"
    BY DEF RecoverAll, Busy
  <1>2. \A k \in DOMAIN requests :
          outcome'[k] = IF \E t \in late : t.memo = k THEN "TooOld" ELSE outcome[k]
    <2>1. DOMAIN outcome = DOMAIN requests
      BY DEF TerminalInv, HistoryInv
    <2>2. outcome' = [m \in DOMAIN outcome |->
            IF \E t \in late : t.memo = m THEN "TooOld" ELSE outcome[m]]
      BY DEF RecoverAll
    <2> QED
      BY <2>1, <2>2
  <1>3. \A t \in recovery : t \in TransferRecord /\ t.memo \in DOMAIN requests /\ credits[t.memo] = << >>
    <2>1. \A t \in recovery : t.memo \in Nat /\ Live(t.memo)
      BY ListTyped DEF TransferRecord, Live, Listed
    <2> QED
      BY <2>1 DEF OldAreDeposits, TerminalInv, OwnerInv
  <1>4. ASSUME NEW t \in late, NEW k, k = t.memo PROVE k \in DOMAIN requests /\ Done(k)'
    <2>1. /\ k \in DOMAIN requests /\ requests[k].operation = "CreditOnSuccess"
          /\ credits'[k] = << >> /\ outcome'[k] = "TooOld"
          /\ Expired(k) \/ BlocksOf(k, "deposit") = {}
      BY <1>1, <1>2, <1>3, <1>4 DEF OldAreDeposits
    <2> QED
      BY <1>1, <2>1, GivenUpIsDone DEF ledger
  <1>5. PICK n : /\ flows' = [flows EXCEPT ![f] = n]
                 /\ n = flows[f] \/ n.reply = NoReply
                 /\ \A t \in recovery : t \in late \/ Holds(n, t.memo)
    <2>1. CASE recovery = late
      <3>1. flows' = flows /\ flows \in [Flow -> FlowRecord]
        BY <2>1 DEF RecoverAll, TerminalInv, CanisterInv
      <3>2. flows' = [flows EXCEPT ![f] = flows[f]]
        BY <3>1
      <3> QED
        BY <2>1, <3>2
    <2>2. CASE recovery # late
      <3>1. PICK t \in recovery \ late :
              flows' = [flows EXCEPT ![f] =
                [Recover(f, t) EXCEPT !.fee = saved_fee, !.queue = recovery \ (late \cup {t})]]
        BY <2>2 DEF RecoverAll
      <3>2. PICK n : n = [Recover(f, t) EXCEPT !.fee = saved_fee, !.queue = recovery \ (late \cup {t})]
        OBVIOUS
      <3>3. flows[f] \in FlowRecord /\ t \in TransferRecord /\ clock \in Nat
        BY <1>3, Typed
      <3>4. /\ Recover(f, t) \in FlowRecord /\ Recover(f, t).call \in {"transfer", "interim_balance"}
            /\ Recover(f, t).tx = t /\ Recover(f, t).reply = NoReply
        BY <3>3, RecoverFlow
      <3>5. /\ n.reply = NoReply /\ n.call \in {"transfer", "interim_balance"} /\ n.tx = t
            /\ n.queue = recovery \ (late \cup {t})
        BY <3>2, <3>4 DEF FlowRecord
      <3>6. \A u \in recovery : u \in late \/ Holds(n, u.memo)
        BY <3>5 DEF Holds, OwnMemo
      <3> QED
        BY <3>1, <3>2, <3>5, <3>6
    <2> QED
      BY <2>1, <2>2
  <1> HIDE DEF late
  <1>6. /\ \A g \in Flow : flows'[g] = IF g = f THEN n ELSE flows[g]
        /\ \A k : ~ Holds(flows[f], k)
    BY <1>1, <1>5, Typed DEF TerminalInv, CanisterInv, CleanFlow, Holds, OwnMemo
  <1>7. (\A g \in Flow : Answered(flows[g]))'
    BY <1>5, <1>6 DEF SettledInv, Answered, NoReply
  <1>8. ASSUME NEW k \in DOMAIN requests PROVE Live(k)' \/ Done(k)'
    <2>1. CASE Lists(recovery, k)
      <3>1. PICK t \in recovery : t.memo = k
        BY <2>1 DEF Lists
      <3> QED
        BY <1>4, <1>5, <1>6, <3>1, LiveIs
    <2>2. CASE \E g \in Flow : Holds(flows[g], k)
      BY <1>6, <2>2, LiveIs
    <2>3. CASE ~ Live(k)
      <3>1. Done(k)
        BY <2>3 DEF SettledInv
      <3>2. outcome'[k] = outcome[k]
        BY <1>2, <2>3, LiveIs DEF late, Lists
      <3> QED
        BY <1>1, <3>1, <3>2, DoneStays DEF ledger
    <2> QED
      BY <2>1, <2>2, <2>3, LiveIs
  <1> QED
    BY <1>1, <1>7, <1>8 DEF SettledInv

\* A step of the ledger, for a transfer that is still under way
LEMMA HandledSettles ==
  ASSUME TerminalInv, SettledInv, NEW f \in Flow, NEW call, NEW reply, Handled(f, call, reply),
         call \in Query /\ reply.kind = "MaybeFailed" => call \in FailingQueries,
         \A k \in DOMAIN requests : ~ Holds(flows[f], k) => \A kind : BlocksOf(k, kind)' = BlocksOf(k, kind)
  PROVE  SettledInv'
  <1>1. /\ flows[f] \in FlowRecord /\ flows[f].call = call
        /\ UNCHANGED << recovery, clock, requests, credits, outcome >>
    BY Typed DEF Handled, history
  <1>2. PICK n : n = [flows[f] EXCEPT !.reply = reply]
    OBVIOUS
  <1>3. n.call = call /\ n.tx = flows[f].tx /\ n.queue = flows[f].queue /\ n.reply = reply
    BY <1>1, <1>2 DEF FlowRecord
  <1>4. \A g \in Flow : flows'[g] = IF g = f THEN n ELSE flows[g]
    BY <1>2 DEF Handled, TerminalInv, CanisterInv
  <1>5. Answered(n) /\ \A k : Holds(n, k) <=> Holds(flows[f], k)
    BY <1>1, <1>3 DEF Answered, Holds, OwnMemo
  <1>6. (\A g \in Flow : Answered(flows[g]))'
    BY <1>4, <1>5 DEF SettledInv
  <1>7. ASSUME NEW k \in DOMAIN requests PROVE Live(k)' \/ Done(k)'
    <2>1. CASE Live(k)
      BY <1>1, <1>4, <1>5, <2>1, LiveIs
    <2>2. CASE ~ Live(k)
      <3>1. Done(k) /\ ~ Holds(flows[f], k)
        BY <2>2, LiveIs DEF SettledInv
      <3>2. Expired(k) => Expired(k)'
        BY <1>1 DEF Expired
      <3> QED
        BY <1>1, <3>1, <3>2, DoneKept
    <2> QED
      BY <2>1, <2>2
  <1> QED
    BY <1>1, <1>6, <1>7 DEF SettledInv

LEMMA LedgerStepSettles ==
  ASSUME TerminalInv, SettledInv, NEW f \in Flow, LedgerStep(f)
  PROVE  SettledInv'
  <1>1. blocks' = blocks => \A k, kind : BlocksOf(k, kind)' = BlocksOf(k, kind)
    BY DEF BlocksOf
  <1>2. "transfer" \notin Query
    BY DEF Query
  \* A transfer that the ledger handles, whether it is heard or not
  <1>3. ASSUME NEW reply, Handled(f, "transfer", reply), Executed(f)
        PROVE  SettledInv'
    <2>1. OwnMemo(flows[f])
      BY <1>3 DEF Handled, OwnMemo
    <2>2. PICK m, block : m = flows[f].tx.memo /\ block = Block(flows[f].tx)
      OBVIOUS
    <2>3. Holds(flows[f], m) /\ block.memo = m
      BY <2>1, <2>2 DEF Holds, Block
    <2>4. blocks' = blocks \/ blocks' = blocks \cup {block}
      BY <1>3, <2>2 DEF Executed, Execute
    <2>5. \A k, kind : k # m => BlocksOf(k, kind)' = BlocksOf(k, kind)
      BY <2>3, <2>4 DEF BlocksOf
    <2> QED
      BY <1>2, <1>3, <2>3, <2>5, HandledSettles
  <1>4. CASE LedgerTransfers(f)
    BY <1>3, <1>4 DEF LedgerTransfers
  <1>5. CASE ReplyLost(f)
    BY <1>3, <1>5 DEF ReplyLost
  <1>6. CASE CallLost(f)
    <2>1. PICK kind \in {"MaybeFailed", "Unavailable"} : Handled(f, "transfer", Reply(kind, 0)) /\ blocks' = blocks
      BY <1>6 DEF CallLost
    <2> QED
      BY <1>1, <1>2, <2>1, HandledSettles
  <1>7. CASE LedgerReads(f)
    <2>1. PICK q \in Query : \E reply : Handled(f, q, reply) /\ reply.kind = "Value" /\ blocks' = blocks
      BY <1>7 DEF LedgerReads, Reply
    <2>2. PICK reply : Handled(f, q, reply) /\ reply.kind = "Value" /\ blocks' = blocks
      BY <2>1
    <2> QED
      BY <1>1, <2>2, HandledSettles
  <1>8. CASE QueryLost(f)
    <2>1. PICK q \in FailingQueries : Handled(f, q, Reply("MaybeFailed", 0)) /\ blocks' = blocks
      BY <1>8 DEF QueryLost
    <2> QED
      BY <1>1, <2>1, HandledSettles
  <1> QED
    BY <1>4, <1>5, <1>6, <1>7, <1>8 DEF LedgerStep

LEMMA EnvironmentSettles ==
  ASSUME TerminalInv, SettledInv, LedgerFeeChanges \/ Tick \/ UNCHANGED vars
  PROVE  SettledInv'
  <1>1. UNCHANGED << flows, recovery, blocks, requests, credits, outcome >>
    BY DEF LedgerFeeChanges, Tick, vars, canister, ledger, history
  <1>3. ASSUME NEW k \in DOMAIN requests PROVE Expired(k) => Expired(k)'
    <2>1. PICK now \in Nat, then \in Nat, at \in Nat : now = clock /\ then = clock' /\ at = requests[k].created_at
                                                  /\ then >= now
      <3>1. clock \in Nat /\ requests[k] \in TransferRecord
        BY LedgerTyped DEF TerminalInv, HistoryInv
      <3>2. clock' = clock \/ clock' = clock + 1
        BY DEF LedgerFeeChanges, Tick, vars
      <3> QED
        BY <3>1, <3>2 DEF TransferRecord
    <2>2. now - at >= DedupPeriod - TxWindow => then - at >= DedupPeriod - TxWindow
      BY <2>1, Constants
    <2> QED
      BY <1>1, <2>1, <2>2 DEF Expired
  <1>2. ASSUME NEW k \in DOMAIN requests PROVE Live(k)' \/ Done(k)'
    <2>1. CASE Live(k)
      BY <1>1, <2>1, LiveIs
    <2>2. CASE ~ Live(k)
      <3>1. Done(k) /\ \A kind : BlocksOf(k, kind)' = BlocksOf(k, kind)
        BY <1>1, <2>2 DEF SettledInv, BlocksOf
      <3> QED
        BY <1>1, <1>3, <3>1, DoneKept
    <2> QED
      BY <2>1, <2>2
  <1> QED
    BY <1>1, <1>2 DEF SettledInv

-----------------------------------------------------------------------------

LEMMA SettledInvInit == Init => SettledInv
  <1> SUFFICES ASSUME Init PROVE SettledInv
    OBVIOUS
  <1>1. DOMAIN requests = {}
    BY DEF Init
  <1>2. \A f \in Flow : flows[f].call = "None"
    BY DEF Init, Idle
  <1> QED
    BY <1>1, <1>2 DEF SettledInv, Answered, Query

\* What may be called on a terminal with the right fee leaves it.
LEMMA RightFeeIsOne ==
  ASSUME RightFee
  PROVE  OneFee /\ FeeCovered /\ AdminFees = {} /\ LedgerFees = {InitialFee}
  <1>1. PICK fee \in Nat \ {0} : LedgerFees = {fee} /\ InitialFee = fee /\ AdminFees = {}
    BY DEF RightFee
  <1>2. OneFee
    BY <1>1 DEF OneFee
  <1>3. FeeCovered
    BY <1>1 DEF FeeCovered
  <1> QED
    BY <1>1, <1>2, <1>3

\* A step of flow f that leaves it with n
LEMMA FlowLeavesAsCreated ==
  ASSUME TerminalInv, AsCreatedInv, UNCHANGED << ledger, requests, saved_fee >>, NEW f \in Flow, NEW n,
         flows' = [flows EXCEPT ![f] = n], FlowAsCreated(n), \A t \in recovery' : AsCreated(t)
  PROVE  AsCreatedInv'
  <1>1. \A t : AsCreated(t) => AsCreated(t)'
    BY DEF AsCreated, ledger
  <1>2. \A g \in Flow : flows'[g] = n \/ flows'[g] = flows[g]
    BY DEF TerminalInv, CanisterInv
  <1>3. ASSUME NEW r, FlowAsCreated(r)
        PROVE  /\ r.call # "None" => r.fee = ledger_fee'
               /\ r.call # "minting_account" /\ r.reply.kind # "BadFee"
               /\ OwnMemo(r) => AsCreated(r.tx)'
               /\ \A t \in r.queue : AsCreated(t)'
    BY <1>1, <1>3 DEF FlowAsCreated, ledger
  <1>4. (\A g \in Flow : FlowAsCreated(flows[g]))'
    <2> SUFFICES ASSUME NEW g \in Flow PROVE FlowAsCreated(flows[g])'
      OBVIOUS
    <2>1. PICK r : r = flows'[g]
      OBVIOUS
    <2>2. FlowAsCreated(r)
      BY <1>2, <2>1 DEF AsCreatedInv
    <2> QED
      BY <1>3, <2>1, <2>2 DEF FlowAsCreated, OwnMemo
  <1>5. (\A t \in recovery : AsCreated(t))' /\ (saved_fee = ledger_fee)'
    BY <1>1 DEF AsCreatedInv, ledger
  <1> QED
    BY <1>4, <1>5 DEF AsCreatedInv

\* The flow sends a transfer.
LEMMA SendAsCreated ==
  ASSUME TerminalInv, AsCreatedInv, NEW f \in Flow, flows[f].call # "None", NEW tx, AsCreated(tx), NEW n, NEW kept
  PROVE  /\ FlowAsCreated(Send(f, tx, n, kept))
         /\ FlowAsCreated([Send(f, tx, n, TRUE) EXCEPT !.fee = flows[f].fee, !.since = flows[f].since])
  <1>1. flows[f] \in FlowRecord /\ FlowAsCreated(flows[f])
    BY Typed DEF AsCreatedInv
  <1>2. PICK r : r = Send(f, tx, n, kept)
    OBVIOUS
  <1>3. /\ r.call = "transfer" /\ r.tx = tx /\ r.reply = NoReply /\ r.queue = flows[f].queue
        /\ r.fee = flows[f].fee
    BY <1>1, <1>2 DEF Send, FlowRecord
  <1>4. PICK q : q = [Send(f, tx, n, TRUE) EXCEPT !.fee = flows[f].fee, !.since = flows[f].since]
    OBVIOUS
  <1>5. /\ q.call = "transfer" /\ q.tx = tx /\ q.reply = NoReply /\ q.queue = flows[f].queue
        /\ q.fee = flows[f].fee
    BY <1>1, <1>4 DEF Send, FlowRecord
  <1>6. FlowAsCreated(r)
    BY <1>1, <1>3 DEF FlowAsCreated, NoReply
  <1>7. FlowAsCreated(q)
    BY <1>1, <1>5 DEF FlowAsCreated, NoReply
  <1> QED
    BY <1>2, <1>4, <1>6, <1>7

\* The flow goes on with the next transfer of recover_all.
LEMMA RecoverAsCreated ==
  ASSUME TerminalInv, NEW f \in Flow, NEW queue, \A u \in queue : AsCreated(u), NEW t \in TransferRecord,
         t \in queue, NEW rest, rest \subseteq queue, NEW fee, fee = ledger_fee
  PROVE  FlowAsCreated([Recover(f, t) EXCEPT !.fee = fee, !.queue = rest])
  <1>1. PICK n : n = [Recover(f, t) EXCEPT !.fee = fee, !.queue = rest]
    OBVIOUS
  <1>2. flows[f] \in FlowRecord /\ clock \in Nat
    BY Typed
  <1>3. /\ Recover(f, t) \in FlowRecord /\ Recover(f, t).call \in {"transfer", "interim_balance"}
        /\ Recover(f, t).tx = t /\ Recover(f, t).reply = NoReply
    BY <1>2, RecoverFlow
  <1>4. /\ n.reply = NoReply /\ n.call \in {"transfer", "interim_balance"} /\ n.tx = t
        /\ n.queue = rest /\ n.fee = fee
    BY <1>1, <1>3 DEF FlowRecord
  <1>5. FlowAsCreated(n)
    BY <1>4 DEF FlowAsCreated, NoReply
  <1> QED
    BY <1>1, <1>5

\* The transfer of the flow ends.
LEMMA ReturnAsCreated ==
  ASSUME TerminalInv, AsCreatedInv, UNCHANGED << ledger, requests, saved_fee >>, NEW f \in Flow,
         flows[f].call # "None", NEW memo, NEW result, Return(f, flows[f].fee, memo, result),
         \A t \in recovery' : AsCreated(t)
  PROVE  AsCreatedInv'
  <1> DEFINE queue == flows[f].queue
             late == {t \in queue : TooOld(t)}
  <1>1. FlowAsCreated(flows[f]) /\ \A t \in queue : AsCreated(t) /\ t \in TransferRecord
    BY Typed DEF AsCreatedInv, FlowAsCreated
  <1>2. CASE queue = late
    <2>1. flows' = [flows EXCEPT ![f] = Idle]
      BY <1>2 DEF Return
    <2>2. FlowAsCreated(Idle)
      BY DEF FlowAsCreated, Idle, NoReply, OwnMemo
    <2> QED
      BY <2>1, <2>2, FlowLeavesAsCreated
  <1>3. CASE queue # late
    <2>1. PICK t \in queue \ late :
            flows' = [flows EXCEPT ![f] =
              [Recover(f, t) EXCEPT !.fee = flows[f].fee, !.queue = queue \ (late \cup {t})]]
      BY <1>3 DEF Return
    <2>2. PICK rest, fee : rest = queue \ (late \cup {t}) /\ fee = flows[f].fee
      OBVIOUS
    <2>3. rest \subseteq queue /\ fee = ledger_fee
      BY <1>1, <2>2 DEF FlowAsCreated
    <2>4. PICK all : all = queue
      OBVIOUS
    <2>5. FlowAsCreated([Recover(f, t) EXCEPT !.fee = fee, !.queue = rest])
      BY <1>1, <2>1, <2>3, <2>4, RecoverAsCreated
    <2> QED
      BY <2>1, <2>2, <2>5, FlowLeavesAsCreated
  <1> QED
    BY <1>2, <1>3

LEMMA CompleteAsCreated ==
  ASSUME TerminalInv, AsCreatedInv, UNCHANGED << ledger, requests >>, NEW f \in Flow, OwnMemo(flows[f]),
         NEW n, Complete(f, flows[f].tx, n)
  PROVE  AsCreatedInv'
  <1>1. /\ recovery' = recovery /\ saved_fee' = saved_fee /\ flows[f].call # "None"
        /\ flows[f].tx \in TransferRecord /\ AsCreated(flows[f].tx) /\ \A t \in recovery : AsCreated(t)
    BY Typed DEF Complete, OwnMemo, AsCreatedInv, FlowAsCreated
  <1>2. PICK second : second = NextStep(flows[f].tx, clock)
    OBVIOUS
  <1>3. AsCreated(second)
    BY <1>1, <1>2 DEF NextStep, AsCreated, TransferRecord
  <1>4. CASE flows' = [flows EXCEPT ![f] = Send(f, second, n, FALSE)]
    BY <1>1, <1>3, <1>4, SendAsCreated, FlowLeavesAsCreated
  <1>5. CASE \E result : Return(f, flows[f].fee, flows[f].tx.memo, result)
    BY <1>1, <1>5, ReturnAsCreated
  <1> QED
    BY <1>2, <1>4, <1>5 DEF Complete

LEMMA RejectAsCreated ==
  ASSUME TerminalInv, AsCreatedInv, UNCHANGED << ledger, requests >>, NEW f \in Flow, OwnMemo(flows[f]),
         Reject(f, flows[f].tx)
  PROVE  AsCreatedInv'
  <1>1. /\ saved_fee' = saved_fee /\ flows[f].call # "None"
        /\ AsCreated(flows[f].tx) /\ \A t \in recovery : AsCreated(t)
    BY DEF Reject, OwnMemo, AsCreatedInv, FlowAsCreated
  <1>2. \A t \in recovery' : AsCreated(t)
    BY <1>1 DEF Reject, Pushed
  <1>3. PICK result : Return(f, flows[f].fee, flows[f].tx.memo, result)
    BY DEF Reject
  <1> QED
    BY <1>1, <1>2, <1>3, ReturnAsCreated

LEMMA RetryAsCreated ==
  ASSUME TerminalInv, AsCreatedInv, UNCHANGED << ledger, requests, saved_fee >>, NEW f \in Flow,
         OwnMemo(flows[f]), NEW n, Retry(f, flows[f].fee, flows[f].tx, n, recovery)
  PROVE  AsCreatedInv'
  <1>1. flows[f].call # "None" /\ AsCreated(flows[f].tx) /\ \A t \in recovery : AsCreated(t)
    BY DEF OwnMemo, AsCreatedInv, FlowAsCreated
  <1>2. \A t \in recovery' : AsCreated(t)
    BY <1>1 DEF Retry, Pushed
  <1>3. CASE n = 0
    <2>1. Return(f, flows[f].fee, flows[f].tx.memo, "Recoverable")
      BY <1>3 DEF Retry
    <2> QED
      BY <1>1, <1>2, <2>1, ReturnAsCreated
  <1>4. CASE n # 0
    <2>1. flows' = [flows EXCEPT ![f] =
            [Send(f, flows[f].tx, n, TRUE) EXCEPT !.fee = flows[f].fee, !.since = flows[f].since]]
      BY <1>4 DEF Retry
    <2>2. PICK tx : tx = flows[f].tx
      OBVIOUS
    <2>3. FlowAsCreated([Send(f, tx, n, TRUE) EXCEPT !.fee = flows[f].fee, !.since = flows[f].since])
      BY <1>1, <2>2, SendAsCreated
    <2> QED
      BY <1>2, <2>1, <2>2, <2>3, FlowLeavesAsCreated
  <1> QED
    BY <1>3, <1>4

\* A new transfer has the fee of the ledger and its time.
LEMMA BeginAsCreated ==
  ASSUME TerminalInv, AsCreatedInv, NEW f \in Flow, flows[f].call \in {"None", "deposit_balance"},
         NEW tx \in TransferRecord, tx.memo = Len(requests) + 1, tx.fee = ledger_fee, Begin(f, tx)
  PROVE  AsCreatedInv'
  <1>1. PICK l \in Nat : l = Len(requests) /\ DOMAIN requests = 1 .. l /\ requests \in Seq(TransferRecord)
    BY DEF TerminalInv, HistoryInv
  <1>2. /\ requests' = Append(requests, tx) /\ ledger_fee' = ledger_fee
        /\ recovery' = recovery /\ saved_fee' = saved_fee
    BY DEF Begin, ledger
  <1>3. (\A m \in DOMAIN requests : requests'[m] = requests[m]) /\ requests'[tx.memo] = tx
    BY <1>1, <1>2
  <1>4. ASSUME NEW t, AsCreated(t), t.memo \in DOMAIN requests PROVE AsCreated(t)'
    BY <1>2, <1>3, <1>4 DEF AsCreated
  <1>5. AsCreated(tx)'
    BY <1>2, <1>3 DEF AsCreated
  <1>6. PICK n : n = [Send(f, tx, NRetries, FALSE) EXCEPT !.fee = tx.fee]
    OBVIOUS
  <1>7. /\ flows[f] \in FlowRecord /\ flows[f].queue = {}
        /\ \A g \in Flow : flows'[g] = IF g = f THEN n ELSE flows[g]
    BY <1>6, Typed DEF CleanFlow, TerminalInv, CanisterInv, Begin
  <1>8. n.call = "transfer" /\ n.tx = tx /\ n.reply = NoReply /\ n.queue = {} /\ n.fee = tx.fee
    BY <1>6, <1>7 DEF Send, FlowRecord
  <1>9. \A t \in recovery : t.memo \in DOMAIN requests
    <2>1. \A t \in recovery : t.memo \in Nat /\ Live(t.memo)
      BY ListTyped DEF TransferRecord, Live, Listed
    <2> QED
      BY <2>1 DEF TerminalInv, OwnerInv
  <1>10. \A g \in Flow : /\ OwnMemo(flows[g]) => flows[g].tx.memo \in DOMAIN requests
                         /\ \A t \in flows[g].queue : t.memo \in DOMAIN requests
    <2>1. ASSUME NEW g \in Flow PROVE /\ OwnMemo(flows[g]) => flows[g].tx.memo \in DOMAIN requests
                                      /\ \A t \in flows[g].queue : t.memo \in DOMAIN requests
      <3>1. \A k \in Nat : HeldBy(g, k) => k \in DOMAIN requests
        BY DEF TerminalInv, OwnerInv, Live
      <3>2. flows[g].tx \in TransferRecord /\ \A t \in flows[g].queue : t \in TransferRecord
        BY Typed
      <3> QED
        BY <3>1, <3>2 DEF HeldBy, OwnMemo, TransferRecord
    <2> QED
      BY <2>1
  <1>11. ASSUME NEW g \in Flow PROVE FlowAsCreated(flows[g])'
    <2>1. PICK r : r = flows'[g]
      OBVIOUS
    <2>2. CASE g = f
      <3>1. r = n
        BY <1>7, <2>1, <2>2
      <3> QED
        BY <1>2, <1>5, <1>8, <2>1, <3>1 DEF FlowAsCreated, NoReply
    <2>3. CASE g # f
      <3>1. r = flows[g]
        BY <1>7, <2>1, <2>3
      <3>2. FlowAsCreated(r)
        BY <3>1 DEF AsCreatedInv
      <3>3. /\ OwnMemo(r) => AsCreated(r.tx)'
            /\ \A t \in r.queue : AsCreated(t)'
        BY <1>4, <1>10, <3>1, <3>2 DEF FlowAsCreated
      <3> QED
        BY <1>2, <2>1, <3>2, <3>3 DEF FlowAsCreated, OwnMemo
    <2> QED
      BY <2>2, <2>3
  <1>12. (\A t \in recovery : AsCreated(t))' /\ (saved_fee = ledger_fee)'
    BY <1>2, <1>4, <1>9 DEF AsCreatedInv
  <1> QED
    BY <1>11, <1>12 DEF AsCreatedInv

LEMMA AsCreatedInvInit == RightFee /\ Init => AsCreatedInv
  <1> SUFFICES ASSUME RightFee, Init PROVE AsCreatedInv
    OBVIOUS
  <1>1. saved_fee = ledger_fee /\ recovery = {}
    BY RightFeeIsOne DEF Init
  <1>2. \A f \in Flow : flows[f] = Idle
    BY DEF Init
  <1>3. FlowAsCreated(Idle)
    BY DEF FlowAsCreated, Idle, NoReply, OwnMemo
  <1> QED
    BY <1>1, <1>2, <1>3 DEF AsCreatedInv

LEMMA ContinueAsCreated ==
  ASSUME RightFee, TerminalInv, OnceInv, AsCreatedInv, NEW f \in Flow, Continue(f)
  PROVE  AsCreatedInv'
  <1>1. /\ FlowAsCreated(flows[f]) /\ flows[f] \in FlowRecord /\ flows[f].tx \in TransferRecord
        /\ saved_fee = ledger_fee /\ clock \in Nat
    BY Typed DEF AsCreatedInv
  <1>2. CASE OnSuccess(f)
    <2>1. /\ flows[f].call = "transfer" /\ Complete(f, flows[f].tx, flows[f].retries)
          /\ UNCHANGED << ledger, requests >>
      BY <1>2 DEF OnSuccess, OnTransfer, Replied
    <2> QED
      BY <2>1, CompleteAsCreated DEF OwnMemo
  <1>3. CASE OnUnknown(f)
    <2>1. /\ flows[f].call = "transfer" /\ UNCHANGED << ledger, requests, saved_fee >>
          /\ Retry(f, flows[f].fee, flows[f].tx, flows[f].retries - 1, recovery)
      BY <1>3 DEF OnUnknown, OnTransfer, Replied
    <2> QED
      BY <2>1, RetryAsCreated DEF OwnMemo
  <1>4. ~ OnWrongFee(f) /\ ~ OnMintingAccount(f)
    BY <1>1 DEF OnWrongFee, OnTransfer, OnMintingAccount, Replied, FlowAsCreated
  <1>5. CASE OnRejected(f)
    <2>1. /\ flows[f].call = "transfer" /\ UNCHANGED << ledger, requests >> /\ Reject(f, flows[f].tx)
      BY <1>5 DEF OnRejected, OnTransfer, Replied
    <2> QED
      BY <2>1, RejectAsCreated DEF OwnMemo
  <1>6. CASE OnInterimBalance(f)
    <2>1. /\ flows[f].call = "interim_balance" /\ UNCHANGED << ledger, requests >>
          /\ RecoverOldTx(f, flows[f].tx, flows[f].reply.value)
      BY <1>6 DEF OnInterimBalance, Replied
    <2>2. OwnMemo(flows[f]) /\ flows[f].call # "None"
      BY <2>1 DEF OwnMemo
    <2>3. CASE Reject(f, flows[f].tx)
      BY <2>1, <2>2, <2>3, RejectAsCreated
    <2>4. CASE Complete(f, flows[f].tx, NRetries)
      BY <2>1, <2>2, <2>4, CompleteAsCreated
    <2>5. CASE /\ flows[f].tx.stage = "Second" /\ recovery' = recovery /\ saved_fee' = saved_fee
               /\ flows' = [flows EXCEPT ![f] = Send(f, Renew(flows[f].tx, clock), NRetries, TRUE)]
      <3>1. PICK tx : tx = Renew(flows[f].tx, clock)
        OBVIOUS
      <3>2. AsCreated(tx)
        <4>1. AsCreated(flows[f].tx)
          BY <1>1, <2>2 DEF FlowAsCreated
        <4>2. tx.stage = "Second" /\ tx.fee = flows[f].tx.fee
          BY <1>1, <2>5, <3>1 DEF Renew, TransferRecord
        <4> QED
          BY <4>1, <4>2 DEF AsCreated
      <3>3. FlowAsCreated(Send(f, tx, NRetries, TRUE))
        BY <2>2, <3>2, SendAsCreated
      <3>4. \A t \in recovery' : AsCreated(t)
        BY <2>5 DEF AsCreatedInv
      <3> QED
        BY <2>1, <2>5, <3>1, <3>3, <3>4, FlowLeavesAsCreated
    <2> QED
      BY <2>1, <2>3, <2>4, <2>5 DEF RecoverOldTx
  <1>7. \A t \in recovery : AsCreated(t)
    BY DEF AsCreatedInv
  <1>8. FlowAsCreated(Idle)
    BY DEF FlowAsCreated, Idle, NoReply, OwnMemo
  <1>9. CASE OnDepositBalance(f)
    <2>1. flows[f].call = "deposit_balance"
      BY <1>9 DEF OnDepositBalance, Replied
    <2>2. PICK amount \in Nat, fee \in Nat, next \in Nat :
            amount = flows[f].reply.value /\ fee = flows[f].fee /\ next = Len(requests) + 1
      <3>1. requests \in Seq(TransferRecord)
        BY DEF TerminalInv, HistoryInv
      <3> QED
        BY <1>1, <3>1 DEF FlowRecord, ReplyRecord
    <2>3. PICK tx : tx = NewTransfer("CreditOnSuccess", amount, fee, clock, next)
      OBVIOUS
    <2>4. tx \in TransferRecord /\ tx.memo = next /\ tx.fee = fee
      <3>1. "CreditOnSuccess" \in Operation
        BY DEF Operation
      <3> QED
        BY <1>1, <2>3, <3>1, NewTransferType DEF NewTransfer
    <2>5. fee = ledger_fee
      BY <1>1, <2>1, <2>2 DEF FlowAsCreated
    <2>6. \/ Begin(f, tx)
          \/ flows' = [flows EXCEPT ![f] = Idle] /\ UNCHANGED << recovery, saved_fee, ledger, history >>
      BY <1>9, <2>2, <2>3 DEF OnDepositBalance
    <2>7. CASE Begin(f, tx)
      BY <2>1, <2>2, <2>4, <2>5, <2>7, BeginAsCreated
    <2>8. CASE flows' = [flows EXCEPT ![f] = Idle] /\ UNCHANGED << recovery, saved_fee, ledger, history >>
      BY <1>7, <1>8, <2>8, FlowLeavesAsCreated DEF history
    <2> QED
      BY <2>6, <2>7, <2>8
  <1>10. CASE OnQueryFailed(f)
    <2>1. /\ flows[f].call # "None" /\ UNCHANGED << recovery, saved_fee, ledger, requests >>
      BY <1>10 DEF OnQueryFailed, Replied, Query
    <2>2. \/ flows' = [flows EXCEPT ![f] = Idle]
          \/ \E result : Return(f, flows[f].fee, flows[f].tx.memo, result)
      BY <1>10 DEF OnQueryFailed
    <2>3. CASE flows' = [flows EXCEPT ![f] = Idle]
      BY <1>7, <1>8, <2>1, <2>3, FlowLeavesAsCreated
    <2>4. CASE \E result : Return(f, flows[f].fee, flows[f].tx.memo, result)
      BY <1>7, <2>1, <2>4, ReturnAsCreated
    <2> QED
      BY <2>2, <2>3, <2>4
  <1> QED
    BY <1>2, <1>3, <1>4, <1>5, <1>6, <1>9, <1>10 DEF Continue

LEMMA LedgerStepAsCreated ==
  ASSUME TerminalInv, AsCreatedInv, NEW f \in Flow, LedgerStep(f)
  PROVE  AsCreatedInv'
  <1>1. PICK call, reply : Handled(f, call, reply) /\ reply.kind # "BadFee"
    <2>1. CASE LedgerTransfers(f)
      <3>1. Handled(f, "transfer", Answer(flows[f].tx)) /\ flows[f].call = "transfer"
        BY <2>1 DEF LedgerTransfers, Handled
      <3>2. flows[f].tx.fee = ledger_fee
        BY <3>1 DEF AsCreatedInv, FlowAsCreated, OwnMemo, AsCreated
      <3>3. Answer(flows[f].tx).kind # "BadFee"
        BY <3>2 DEF Answer, Reply
      <3> QED
        BY <3>1, <3>3
    <2>2. CASE ReplyLost(f)
      BY <2>2 DEF ReplyLost, Reply
    <2>3. CASE CallLost(f)
      <3>1. PICK kind \in {"MaybeFailed", "Unavailable"} : Handled(f, "transfer", Reply(kind, 0))
        BY <2>3 DEF CallLost
      <3>2. Reply(kind, 0).kind # "BadFee"
        BY DEF Reply
      <3> QED
        BY <3>1, <3>2
    <2>4. CASE LedgerReads(f)
      <3>1. PICK q \in Query : \E reply : Handled(f, q, reply) /\ reply.kind = "Value"
        BY <2>4 DEF LedgerReads, Reply
      <3> QED
        BY <3>1
    <2>5. CASE QueryLost(f)
      <3>1. PICK q \in FailingQueries : Handled(f, q, Reply("MaybeFailed", 0))
        BY <2>5 DEF QueryLost
      <3>2. Reply("MaybeFailed", 0).kind # "BadFee"
        BY DEF Reply
      <3> QED
        BY <3>1, <3>2
    <2> QED
      BY <2>1, <2>2, <2>3, <2>4, <2>5 DEF LedgerStep
  <1>2. /\ flows[f] \in FlowRecord /\ FlowAsCreated(flows[f])
        /\ UNCHANGED << recovery, saved_fee, ledger_fee, requests >>
    BY <1>1, Typed DEF Handled, history, AsCreatedInv
  <1>3. PICK n : n = [flows[f] EXCEPT !.reply = reply]
    OBVIOUS
  <1>4. /\ n.call = flows[f].call /\ n.tx = flows[f].tx /\ n.queue = flows[f].queue /\ n.reply = reply
        /\ n.fee = flows[f].fee
    BY <1>2, <1>3 DEF FlowRecord
  <1>5. \A g \in Flow : flows'[g] = IF g = f THEN n ELSE flows[g]
    BY <1>1, <1>3 DEF Handled, TerminalInv, CanisterInv
  <1>6. FlowAsCreated(n)
    BY <1>1, <1>2, <1>4 DEF FlowAsCreated, OwnMemo
  <1>7. \A t : AsCreated(t) => AsCreated(t)'
    BY <1>2 DEF AsCreated
  <1>8. ASSUME NEW g \in Flow PROVE FlowAsCreated(flows[g])'
    <2>1. PICK r : r = flows'[g]
      OBVIOUS
    <2>2. FlowAsCreated(r)
      BY <1>5, <1>6, <2>1 DEF AsCreatedInv
    <2>3. /\ OwnMemo(r) => AsCreated(r.tx)'
          /\ \A t \in r.queue : AsCreated(t)'
      BY <1>7, <2>2 DEF FlowAsCreated
    <2> QED
      BY <1>2, <2>1, <2>2, <2>3 DEF FlowAsCreated, OwnMemo
  <1>9. (\A t \in recovery : AsCreated(t))' /\ (saved_fee = ledger_fee)'
    BY <1>2, <1>7 DEF AsCreatedInv
  <1> QED
    BY <1>8, <1>9 DEF AsCreatedInv

\* With the right fee no transfer loses its time.
LEMMA AsCreatedInvNext ==
  ASSUME RightFee, TerminalInv, OnceInv, AsCreatedInv, [Next]_vars
  PROVE  AsCreatedInv'
  <1>1. ASSUME NEW f \in Flow, NEW amount \in Amounts, Deposit(f, amount) \/ Withdraw(f, amount)
        PROVE  AsCreatedInv'
    <2>1. amount \in Nat /\ saved_fee \in Nat /\ clock \in Nat /\ flows[f].call = "None"
      BY <1>1, Constants, ListTyped, LedgerTyped DEF Deposit, Withdraw, Busy
    <2>2. PICK op \in Operation : Begin(f, New(op, amount))
      BY <1>1 DEF Deposit, Withdraw, Operation
    <2>3. PICK next \in Nat : next = Len(requests) + 1
      BY DEF TerminalInv, HistoryInv
    <2>4. PICK tx : tx = NewTransfer(op, amount, saved_fee, clock, next)
      OBVIOUS
    <2>5. tx \in TransferRecord /\ tx.memo = next /\ tx.fee = ledger_fee
      BY <2>1, <2>4, NewTransferType DEF NewTransfer, AsCreatedInv
    <2> QED
      BY <2>1, <2>2, <2>3, <2>4, <2>5, BeginAsCreated DEF New
  <1>2. ASSUME NEW f \in Flow, DepositAll(f) PROVE AsCreatedInv'
    <2>1. PICK n : n = [Idle EXCEPT !.call = "deposit_balance", !.fee = saved_fee]
      OBVIOUS
    <2>2. /\ n.call = "deposit_balance" /\ n.fee = saved_fee /\ n.reply = NoReply /\ n.queue = {}
      BY <2>1 DEF Idle
    <2>3. FlowAsCreated(n)
      BY <2>2 DEF FlowAsCreated, AsCreatedInv, NoReply, OwnMemo
    <2>4. /\ flows' = [flows EXCEPT ![f] = n] /\ UNCHANGED << recovery, ledger, requests, saved_fee >>
      BY <1>2, <2>1 DEF DepositAll, history
    <2>5. \A t \in recovery' : AsCreated(t)
      BY <2>4 DEF AsCreatedInv
    <2> QED
      BY <2>3, <2>4, <2>5, FlowLeavesAsCreated
  <1>3. ASSUME NEW f \in Flow, RecoverAll(f) PROVE AsCreatedInv'
    <2> DEFINE late == {t \in recovery : TooOld(t)}
    <2>1. /\ UNCHANGED << ledger, requests, saved_fee >> /\ recovery' = {}
          /\ \A t \in recovery : AsCreated(t) /\ t \in TransferRecord
      BY <1>3, ListTyped DEF RecoverAll, Taken, AsCreatedInv
    <2>2. CASE recovery = late
      <3>1. flows' = flows /\ flows \in [Flow -> FlowRecord] /\ FlowAsCreated(flows[f])
        BY <1>3, <2>2 DEF RecoverAll, TerminalInv, CanisterInv, AsCreatedInv
      <3>2. PICK n : n = flows[f]
        OBVIOUS
      <3>3. flows' = [flows EXCEPT ![f] = n] /\ FlowAsCreated(n)
        BY <3>1, <3>2
      <3> QED
        BY <2>1, <3>3, FlowLeavesAsCreated
    <2>3. CASE recovery # late
      <3>1. PICK t \in recovery \ late :
              flows' = [flows EXCEPT ![f] =
                [Recover(f, t) EXCEPT !.fee = saved_fee, !.queue = recovery \ (late \cup {t})]]
        BY <1>3, <2>3 DEF RecoverAll
      <3>2. PICK rest, fee, all : rest = recovery \ (late \cup {t}) /\ fee = saved_fee /\ all = recovery
        OBVIOUS
      <3>3. /\ rest \subseteq all /\ fee = ledger_fee /\ t \in all /\ t \in TransferRecord
            /\ \A u \in all : AsCreated(u)
        BY <2>1, <3>1, <3>2 DEF AsCreatedInv
      <3>4. FlowAsCreated([Recover(f, t) EXCEPT !.fee = fee, !.queue = rest])
        BY <3>3, RecoverAsCreated
      <3> QED
        BY <2>1, <3>1, <3>2, <3>4, FlowLeavesAsCreated
    <2> QED
      BY <2>2, <2>3
  <1>4. AdminFees = {} /\ ~ LedgerFeeChanges
    BY RightFeeIsOne, FeeIsOne DEF LedgerFeeChanges
  <1>5. CASE Tick \/ UNCHANGED vars
    <2>1. UNCHANGED << flows, recovery, saved_fee, ledger_fee, requests >>
      BY <1>5 DEF Tick, vars, canister, ledger, history
    <2> QED
      BY <2>1 DEF AsCreatedInv, FlowAsCreated, AsCreated, OwnMemo
  <1> QED
    BY <1>1, <1>2, <1>3, <1>4, <1>5, ContinueAsCreated, LedgerStepAsCreated DEF Next

-----------------------------------------------------------------------------

LEMMA SettledInvNext ==
  ASSUME RightFee, Spaced, RecoveryAnswered, TerminalInv, OnceInv, SolventInv, SettledInv, AsCreatedInv,
         [Next]_vars
  PROVE  SettledInv'
  <1>1. CASE \E f \in Flow, amount \in Amounts : Deposit(f, amount) \/ Withdraw(f, amount)
    BY <1>1, DepositSettles
  <1>2. CASE \E f \in Flow : DepositAll(f)
    BY <1>2, DepositAllSettles
  <1>3. CASE \E f \in Flow : RecoverAll(f)
    <2>1. \A t \in recovery : TooOld(t) => requests[t.memo].operation = "CreditOnSuccess" /\ Expired(t.memo)
      <3> SUFFICES ASSUME NEW t \in recovery, TooOld(t)
                   PROVE  requests[t.memo].operation = "CreditOnSuccess" /\ Expired(t.memo)
        OBVIOUS
      <3>1. t \in TransferRecord /\ t.memo \in DOMAIN requests /\ StepOf(t) /\ AsCreated(t) /\ clock \in Nat
        BY ListSteps, LedgerTyped DEF Steps, AsCreatedInv
      <3>2. requests[t.memo].operation = "CreditOnSuccess"
        BY <3>1, RequestShape DEF StepOf, TooOld
      <3>3. clock - t.created_at >= DedupPeriod - TxWindow
        BY <3>1, Constants DEF TooOld, CanDeduplicate, TransferRecord
      <3> QED
        BY <3>1, <3>2, <3>3 DEF AsCreated, TooOld, Expired
    <2>2. OldAreDeposits(recovery)
      BY <2>1, ListSteps DEF Steps, OldAreDeposits
    <2> QED
      BY <1>3, <2>2, RecoverAllSettles
  <1>4. CASE \E f \in Flow : Continue(f)
    BY <1>4, ContinueSettles, DepositAllSettles
  <1>5. CASE \E f \in Flow : LedgerStep(f)
    BY <1>5, LedgerStepSettles
  <1>6. AdminFees = {}
    BY RightFeeIsOne
  <1>7. CASE LedgerFeeChanges \/ Tick \/ UNCHANGED vars
    BY <1>7, EnvironmentSettles
  <1> QED
    BY <1>1, <1>2, <1>3, <1>4, <1>5, <1>6, <1>7 DEF Next

(***************************************************************************)
(* The inductive invariant behind SettledOrKept: a request whose transfer  *)
(* is neither under way nor in the list is settled, and its caller was not *)
(* told that it would be recovered.  With the right fee every transfer     *)
(* keeps the time of its request (AsCreatedInv), so that only a deposit    *)
(* that has really expired is given up.                                    *)
(***************************************************************************)
THEOREM SettledInvariant ==
  ASSUME RightFee, DistinctAmounts, Spaced, RecoveryAnswered
  PROVE  Spec => [](TerminalInv /\ OnceInv /\ SolventInv /\ SettledInv /\ AsCreatedInv)
  <1>1. TerminalInv /\ OnceInv /\ SolventInv /\ SettledInv /\ AsCreatedInv /\ [Next]_vars => SettledInv'
    BY SettledInvNext
  <1>2. TerminalInv /\ OnceInv /\ AsCreatedInv /\ [Next]_vars => AsCreatedInv'
    BY AsCreatedInvNext
  <1>3. Init => SettledInv /\ AsCreatedInv
    BY SettledInvInit, AsCreatedInvInit
  <1>4. OneFee /\ FeeCovered
    BY RightFeeIsOne
  <1>5. Spec => [](TerminalInv /\ OnceInv /\ SolventInv)
    BY <1>4, SolventInvariant
  <1> QED
    BY <1>1, <1>2, <1>3, <1>5, PTL DEF Spec

(***************************************************************************)
(* Every transfer that has ended is settled as the ledger says, and every  *)
(* one that its caller was told is recoverable is under way or in the      *)
(* recovery list, whatever replies are lost: with a canister that is       *)
(* configured with the one fee of the ledger, amounts that the ids of the  *)
(* steps tell apart, and no failing query in the recovery itself.  A       *)
(* deposit whose reply was lost is given up only when nobody recovered it  *)
(* within the time that the documentation names.                           *)
(***************************************************************************)
THEOREM TransfersAreSettledOrKept ==
  ASSUME RightFee, DistinctAmounts, Spaced, RecoveryAnswered
  PROVE  Spec => []SettledOrKept
  <1>1. SettledInv => SettledOrKept
    BY DEF SettledInv, SettledOrKept, SettledRight, RecoverableIsKept, Done
  <1> QED
    BY <1>1, SettledInvariant, PTL

(***************************************************************************)
(* A transfer that is neither in progress nor in the recovery list is      *)
(* settled as the ledger says: complete() credits a deposit with what      *)
(* arrived, reject() refunds a withdrawal of which nothing was executed;   *)
(* a deposit that is younger than the deduplication period is never given  *)
(* up when the ledger executed it.                                         *)
(***************************************************************************)
THEOREM TransfersAreSettledRight ==
  ASSUME RightFee, DistinctAmounts, Spaced, RecoveryAnswered
  PROVE  Spec => []SettledRight
  <1>1. SettledOrKept => SettledRight
    BY DEF SettledOrKept
  <1> QED
    BY <1>1, TransfersAreSettledOrKept, PTL

-----------------------------------------------------------------------------
(* Fees that change while no call is lost: what flows know *)

\* What is not in the record of a transfer's step does not matter.
SameStep(t, u) ==
  /\ u.operation = t.operation /\ u.stage = t.stage /\ u.interim = t.interim /\ u.amount = t.amount
  /\ u.memo = t.memo

LEMMA SameStepWaits ==
  ASSUME NEW t, NEW u, SameStep(t, u), Waits(t)
  PROVE  Waits(u)
  <1>1. PartOf(u)
    BY DEF SameStep, Waits, PartOf
  <1>2. ToDo(u)
    BY DEF SameStep, Waits, ToDo
  <1> QED
    BY <1>1, <1>2 DEF Waits

\* What the methods of Transfer make of a step that waits waits.
LEMMA WaitsStays ==
  ASSUME NEW t \in TransferRecord, Waits(t), NEW now \in Nat, NEW fee \in Nat
  PROVE  Waits(WithFee(t, fee)) /\ Waits(ResetTs(WithFee(t, fee))) /\ Waits(Renew(t, now))
  <1>1. SameStep(t, WithFee(t, fee))
    BY DEF SameStep, WithFee, TransferRecord
  <1>2. SameStep(t, ResetTs(WithFee(t, fee)))
    BY DEF SameStep, ResetTs, WithFee, TransferRecord
  <1>3. SameStep(t, Renew(t, now))
    BY DEF SameStep, Renew, TransferRecord
  <1> QED
    BY <1>1, <1>2, <1>3, SameStepWaits

\* The second step waits once the first one has moved.
LEMMA SecondWaits ==
  ASSUME NEW t \in TransferRecord, PartOf(t), Moved(t), t.stage = "First", NEW now \in Nat,
         Valid(NextStep(t, now))
  PROVE  Waits(NextStep(t, now))
  <1>1. PICK u : u = NextStep(t, now)
    OBVIOUS
  <1>2. /\ u.operation = t.operation /\ u.stage = "Second" /\ u.interim = t.interim
        /\ u.amount = AmountMinusFee(t) /\ u.fee = t.fee /\ u.memo = t.memo
    BY <1>1 DEF NextStep, TransferRecord
  <1>3. t.amount \in Nat /\ t.fee \in Nat /\ t.fee \in LedgerFees
    BY DEF TransferRecord, Moved
  <1>4. AmountMinusFee(t) > t.fee
    BY <1>1, <1>2 DEF Valid, EffectiveFee
  <1>5. t.amount = u.amount + t.fee
    BY <1>2, <1>3, <1>4 DEF AmountMinusFee
  <1>6. requests[t.memo].stage = "First" /\ requests[t.memo].amount = t.amount
        /\ t.operation = requests[t.memo].operation /\ t.interim = requests[t.memo].interim
    BY DEF PartOf
  <1>7. PartOf(u)
    BY <1>2, <1>3, <1>5, <1>6 DEF PartOf
  <1>8. ToDo(u)
    BY <1>2 DEF ToDo, Moved
  <1> QED
    BY <1>1, <1>7, <1>8 DEF Waits

\* A flow that awaits a reply
LEMMA AwaitingKnows ==
  ASSUME NEW n, n.reply = NoReply, OwnMemo(n) => Waits(n.tx), \A t \in n.queue : Waits(t),
         n.call = "interim_balance" => n.tx.stage # "Single"
  PROVE  FlowKnows(n)
  BY DEF FlowKnows, NoReply, Waits

-----------------------------------------------------------------------------
(* Steps of the canister *)

\* What is said of a transfer depends on the ledger's blocks and accounts.
LEMMA LedgerKnown ==
  ASSUME UNCHANGED << funds, blocks, requests >>
  PROVE  /\ \A t : (PartOf(t)' <=> PartOf(t)) /\ (ToDo(t)' <=> ToDo(t)) /\ (Moved(t)' <=> Moved(t))
         /\ \A t : Waits(t)' <=> Waits(t)
         /\ \A r : FlowKnows(r)' <=> FlowKnows(r)
  <1>1. (\A a : BalanceOf(a)' = BalanceOf(a)) /\ \A m, kind : BlocksOf(m, kind)' = BlocksOf(m, kind)
    BY DEF BalanceOf, BlocksOf
  <1>2. \A t : PartOf(t)' <=> PartOf(t)
    BY DEF PartOf
  <1>3. \A t : ToDo(t)' <=> ToDo(t)
    BY <1>1 DEF ToDo
  <1>4. \A t : Moved(t)' <=> Moved(t)
    BY <1>1 DEF Moved
  <1>5. \A t : Waits(t)' <=> Waits(t)
    BY <1>2, <1>3 DEF Waits
  <1>6. \A r : FlowKnows(r)' <=> FlowKnows(r)
    BY <1>2, <1>3, <1>4, <1>5 DEF FlowKnows, OwnMemo
  <1> QED
    BY <1>2, <1>3, <1>4, <1>5, <1>6

LEMMA CanisterKnows ==
  ASSUME KnownInv, UNCHANGED << funds, blocks, requests >>, ledger_fee' \in LedgerFees,
         \A f \in Flow : FlowKnows(flows'[f]), \A t \in recovery' : Waits(t)
  PROVE  KnownInv'
  <1>1. RequestsInv' /\ StepBlocksInv'
    BY DEF KnownInv, RequestsInv, StepBlocksInv
  <1>2. (\A f \in Flow : FlowKnows(flows[f]))' /\ (\A t \in recovery : Waits(t))'
    BY LedgerKnown
  <1> QED
    BY <1>1, <1>2 DEF KnownInv

LEMMA FlowKnowsNext ==
  ASSUME TerminalInv, KnownInv, UNCHANGED << ledger, requests >>, NEW f \in Flow, NEW n,
         flows' = [flows EXCEPT ![f] = n], FlowKnows(n), \A t \in recovery' : Waits(t)
  PROVE  KnownInv'
  <1>1. flows \in [Flow -> FlowRecord] /\ \A g \in Flow : FlowKnows(flows[g])
    BY DEF TerminalInv, CanisterInv, KnownInv
  <1>2. \A g \in Flow : flows'[g] = IF g = f THEN n ELSE flows[g]
    BY <1>1
  <1>3. \A g \in Flow : FlowKnows(flows'[g])
    BY <1>1, <1>2
  <1>4. UNCHANGED << funds, blocks, requests >> /\ ledger_fee' \in LedgerFees
    BY DEF ledger, KnownInv
  <1> QED
    BY <1>3, <1>4, CanisterKnows

\* A flow in which recover_tx begins with a transfer that waits
LEMMA RecoverKnows ==
  ASSUME TerminalInv, NEW f \in Flow, NEW t \in TransferRecord, Waits(t), ~ TooOld(t), NEW fee,
         NEW rest, \A u \in rest : Waits(u), NEW n, n = [Recover(f, t) EXCEPT !.fee = fee, !.queue = rest]
  PROVE  FlowKnows(n)
  <1>1. flows[f] \in FlowRecord /\ clock \in Nat
    BY Typed
  <1>2. /\ Recover(f, t) \in FlowRecord /\ Recover(f, t).tx = t /\ Recover(f, t).reply = NoReply
    BY <1>1, RecoverFlow
  <1>3. Recover(f, t).call = "interim_balance" => ~ CanDeduplicate(t)
    BY <1>1 DEF Recover, Send, FlowRecord
  <1>4. n.reply = NoReply /\ n.tx = t /\ n.queue = rest /\ n.call = Recover(f, t).call
    BY <1>2 DEF FlowRecord
  <1>5. n.call = "interim_balance" => n.tx.stage # "Single"
    BY <1>3, <1>4 DEF TooOld
  <1> QED
    BY <1>4, <1>5, AwaitingKnows

LEMMA IdleKnows == FlowKnows(Idle)
  <1>1. Idle.reply = NoReply /\ Idle.queue = {} /\ Idle.call = "None" /\ ~ OwnMemo(Idle)
    BY IdleFlow DEF Idle
  <1> QED
    BY <1>1, AwaitingKnows

LEMMA ReturnKnows ==
  ASSUME TerminalInv, KnownInv, UNCHANGED << ledger, requests >>, NEW f \in Flow, NEW fee \in Nat, NEW memo,
         NEW result \in Outcome, Return(f, fee, memo, result), \A t \in recovery' : Waits(t)
  PROVE  KnownInv'
  <1>1. PICK n : Ended(f, fee, n) /\ flows' = [flows EXCEPT ![f] = n]
    BY ReturnEnds
  <1>2. FlowKnows(n)
    <2>1. CASE n = Idle
      BY <2>1, IdleKnows
    <2>2. CASE n # Idle
      <3>1. PICK t \in flows[f].queue, rest \in SUBSET flows[f].queue :
              ~ TooOld(t) /\ n = [Recover(f, t) EXCEPT !.fee = fee, !.queue = rest]
        BY <1>1, <2>2 DEF Ended
      <3>2. \A u \in flows[f].queue : u \in TransferRecord /\ Waits(u)
        BY Typed DEF KnownInv, FlowKnows
      <3> QED
        BY <3>1, <3>2, RecoverKnows
    <2> QED
      BY <2>1, <2>2
  <1> QED
    BY <1>1, <1>2, FlowKnowsNext

\* What is known of the transfer of a flow
LEMMA OwnKnown ==
  ASSUME TerminalInv, KnownInv, NEW f \in Flow, OwnMemo(flows[f])
  PROVE  /\ flows[f].tx \in TransferRecord /\ requests[flows[f].tx.memo] \in TransferRecord
         /\ flows[f].tx.memo \in DOMAIN requests /\ PartOf(flows[f].tx)
         /\ IF flows[f].call = "transfer" /\ flows[f].reply.kind = "Ok"
            THEN Moved(flows[f].tx) ELSE ToDo(flows[f].tx) /\ Waits(flows[f].tx)
         /\ flows[f].fee \in Nat /\ flows[f] \in FlowRecord /\ \A t \in flows[f].queue : Waits(t)
         /\ ledger_fee \in Nat /\ clock \in Nat /\ \A t \in recovery : Waits(t)
         /\ FlowKnows(flows[f])
  BY Typed, MemosKnown, LedgerTyped DEF KnownInv, FlowKnows, Waits

LEMMA CompleteKnows ==
  ASSUME TerminalInv, KnownInv, UNCHANGED << ledger, requests >>, NEW f \in Flow, OwnMemo(flows[f]),
         NEW n \in 1 .. NRetries, Complete(f, flows[f].tx, n), Moved(flows[f].tx)
  PROVE  KnownInv'
  <1> DEFINE tx == flows[f].tx
             second == NextStep(tx, clock)
  <1>1. /\ tx \in TransferRecord /\ PartOf(tx) /\ flows[f].fee \in Nat
        /\ flows[f] \in FlowRecord /\ clock \in Nat /\ \A t \in flows[f].queue : Waits(t)
    BY OwnKnown
  <1>2. \A t \in recovery' : Waits(t)
    BY OwnKnown DEF Complete
  <1>3. "Ok" \in Outcome /\ "InvalidParameters" \in Outcome
    BY DEF Outcome
  <1>4. CASE tx.stage = "First" /\ Valid(second)
    <2>1. flows' = [flows EXCEPT ![f] = Send(f, second, n, FALSE)]
      BY <1>4 DEF Complete
    <2>2. Waits(second)
      BY <1>1, <1>4, SecondWaits
    <2>3. PICK r : r = Send(f, second, n, FALSE)
      OBVIOUS
    <2>4. r.reply = NoReply /\ r.call = "transfer" /\ r.tx = second /\ r.queue = flows[f].queue
      BY <1>1, <2>3 DEF Send, FlowRecord
    <2>5. FlowKnows(r)
      BY <1>1, <2>2, <2>4, AwaitingKnows
    <2> QED
      BY <1>2, <2>1, <2>3, <2>5, FlowKnowsNext
  <1>5. CASE ~ (tx.stage = "First" /\ Valid(second))
    <2>1. \E result \in Outcome : Return(f, flows[f].fee, tx.memo, result)
      BY <1>3, <1>5 DEF Complete
    <2> QED
      BY <1>1, <1>2, <2>1, ReturnKnows
  <1> QED
    BY <1>4, <1>5

LEMMA RejectKnows ==
  ASSUME TerminalInv, KnownInv, UNCHANGED << ledger, requests >>, NEW f \in Flow, OwnMemo(flows[f]),
         Reject(f, flows[f].tx), Waits(flows[f].tx)
  PROVE  KnownInv'
  <1>1. flows[f].fee \in Nat /\ \A t \in recovery : Waits(t)
    BY OwnKnown
  <1>2. recovery' = Pushed(recovery, flows[f].tx) \/ recovery' = recovery
    BY DEF Reject
  <1>3. \A t \in recovery' : Waits(t)
    BY <1>1, <1>2 DEF Pushed
  <1>4. \E result \in Outcome : Return(f, flows[f].fee, flows[f].tx.memo, result)
    BY DEF Reject, Outcome
  <1> QED
    BY <1>1, <1>3, <1>4, ReturnKnows

LEMMA RetryKnows ==
  ASSUME TerminalInv, KnownInv, UNCHANGED << ledger, requests >>, NEW f \in Flow, OwnMemo(flows[f]),
         NEW fee \in Nat, NEW tx, Waits(tx), NEW n, NEW list, \A t \in list : Waits(t),
         Retry(f, fee, tx, n, list)
  PROVE  KnownInv'
  <1>1. flows[f] \in FlowRecord /\ \A t \in flows[f].queue : Waits(t)
    BY OwnKnown
  <1>2. CASE n = 0
    <2>1. recovery' = Pushed(list, tx) /\ Return(f, fee, tx.memo, "Recoverable")
      BY <1>2 DEF Retry
    <2>2. "Recoverable" \in Outcome /\ \A t \in recovery' : Waits(t)
      BY <2>1 DEF Outcome, Pushed
    <2> QED
      BY <2>1, <2>2, ReturnKnows
  <1>3. CASE n # 0
    <2>1. PICK r : r = [Send(f, tx, n, TRUE) EXCEPT !.fee = fee, !.since = flows[f].since]
      OBVIOUS
    <2>2. recovery' = list /\ flows' = [flows EXCEPT ![f] = r]
      BY <1>3, <2>1 DEF Retry
    <2>3. r.call = "transfer" /\ r.tx = tx /\ r.reply = NoReply /\ r.queue = flows[f].queue
      BY <1>1, <2>1 DEF Send, FlowRecord
    <2>4. FlowKnows(r)
      BY <1>1, <2>3, AwaitingKnows
    <2> QED
      BY <2>2, <2>4, FlowKnowsNext
  <1> QED
    BY <1>2, <1>3

\* A list that is rewritten, with whatever fee
LEMMA RewrittenKnows ==
  ASSUME TerminalInv, KnownInv, NEW fee \in Nat, NEW list \in Rewritten(fee)
  PROVE  \A t \in list : Waits(t)
  <1>1. \A t \in list : \E u \in recovery : t = ResetTs(WithFee(u, fee))
    BY RewrittenList
  <1>2. \A u \in recovery : u \in TransferRecord /\ Waits(u)
    BY MemosKnown DEF KnownInv
  <1>3. 0 \in Nat
    OBVIOUS
  <1>4. \A u \in recovery : Waits(ResetTs(WithFee(u, fee)))
    BY <1>2, <1>3, WaitsStays
  <1> QED
    BY <1>1, <1>4

LEMMA UpdateConfigKnows ==
  ASSUME TerminalInv, KnownInv, UNCHANGED << ledger, requests >>, NEW f \in Flow, OwnMemo(flows[f]),
         Waits(flows[f].tx), NEW fee \in Nat, NEW n, UpdateConfigAndRetry(f, fee, n)
  PROVE  KnownInv'
  <1>1. PICK list \in Rewritten(fee) : Retry(f, fee, WithFee(flows[f].tx, fee), n, list)
    BY DEF UpdateConfigAndRetry
  <1>2. flows[f].tx \in TransferRecord /\ clock \in Nat
    BY OwnKnown
  <1>3. Waits(WithFee(flows[f].tx, fee))
    BY <1>2, WaitsStays
  <1>4. \A t \in list : Waits(t)
    BY <1>1, RewrittenKnows
  <1> QED
    BY <1>1, <1>3, <1>4, RetryKnows

LEMMA ContinueKnows ==
  ASSUME TerminalInv, KnownInv, NEW f \in Flow, Continue(f)
  PROVE  KnownInv' \/ OnDepositBalance(f)
  <1>1. /\ flows[f].retries \in 0 .. NRetries /\ CleanFlow(flows[f]) /\ flows[f] \in FlowRecord
        /\ flows[f].fee \in Nat /\ clock \in Nat /\ NRetries \in 1 .. NRetries
    BY Typed, Constants
  <1>2. FlowKnows(flows[f])
    BY DEF KnownInv
  <1>3. flows[f].reply.kind \notin {"Duplicate", "MaybeFailed", "Unavailable"}
    BY <1>2 DEF FlowKnows
  <1>4. CASE OnSuccess(f)
    <2>1. /\ flows[f].call = "transfer" /\ Complete(f, flows[f].tx, flows[f].retries)
          /\ UNCHANGED << ledger, requests >> /\ flows[f].reply.kind = "Ok"
      BY <1>3, <1>4 DEF OnSuccess, OnTransfer, Replied
    <2>2. flows[f].retries \in 1 .. NRetries /\ OwnMemo(flows[f])
      BY <1>1, <2>1, Constants DEF CleanFlow, OwnMemo
    <2>3. Moved(flows[f].tx)
      BY <2>1, <2>2, OwnKnown
    <2> QED
      BY <2>1, <2>2, <2>3, CompleteKnows
  <1>5. CASE OnUnknown(f)
    BY <1>3, <1>5 DEF OnUnknown
  <1>6. CASE OnWrongFee(f)
    <2>1. flows[f].call = "transfer" /\ UNCHANGED << ledger, requests >> /\ flows[f].reply.kind = "BadFee"
      BY <1>6 DEF OnWrongFee, OnTransfer, Replied
    <2>2. OwnMemo(flows[f])
      BY <2>1 DEF OwnMemo
    <2>3. Waits(flows[f].tx)
      BY <2>1, <2>2, OwnKnown
    <2>4. PICK expected \in Nat : expected = flows[f].reply.value
      BY <1>1 DEF FlowRecord, ReplyRecord
    <2>5. CASE expected \in {0, flows[f].fee}
      <3>1. /\ flows' = [flows EXCEPT ![f].call = "minting_account", ![f].reply = NoReply]
            /\ recovery' = recovery
        BY <1>6, <2>4, <2>5 DEF OnWrongFee
      <3>2. PICK r : r = [flows[f] EXCEPT !.call = "minting_account", !.reply = NoReply]
        OBVIOUS
      <3>3. flows' = [flows EXCEPT ![f] = r]
        BY <3>1, <3>2
      <3>4. r.call = "minting_account" /\ r.tx = flows[f].tx /\ r.queue = flows[f].queue /\ r.reply = NoReply
        BY <1>1, <3>2 DEF FlowRecord
      <3>5. FlowKnows(r)
        BY <2>2, <2>3, <3>4, OwnKnown, AwaitingKnows
      <3> QED
        BY <2>1, <2>2, <3>1, <3>3, <3>5, OwnKnown, FlowKnowsNext
    <2>6. CASE expected \notin {0, flows[f].fee}
      <3>1. PICK n : UpdateConfigAndRetry(f, expected, n)
        BY <1>6, <2>4, <2>6 DEF OnWrongFee
      <3> QED
        BY <2>1, <2>2, <2>3, <3>1, UpdateConfigKnows
    <2> QED
      BY <2>5, <2>6
  <1>7. CASE OnRejected(f)
    <2>1. /\ flows[f].call = "transfer" /\ UNCHANGED << ledger, requests >> /\ Reject(f, flows[f].tx)
          /\ flows[f].reply.kind # "Ok" /\ OwnMemo(flows[f])
      BY <1>7 DEF OnRejected, OnTransfer, Replied, OwnMemo
    <2> QED
      BY <2>1, OwnKnown, RejectKnows
  <1>8. CASE OnMintingAccount(f)
    <2>1. /\ flows[f].call = "minting_account" /\ UNCHANGED << ledger, requests >> /\ OwnMemo(flows[f])
      BY <1>8 DEF OnMintingAccount, Replied, OwnMemo
    <2>2. PICK n : UpdateConfigAndRetry(f, flows[f].fee, n)
      BY <1>8 DEF OnMintingAccount
    <2> QED
      BY <1>1, <2>1, <2>2, OwnKnown, UpdateConfigKnows
  <1>9. CASE OnInterimBalance(f)
    <2>1. /\ flows[f].call = "interim_balance" /\ UNCHANGED << ledger, requests >> /\ OwnMemo(flows[f])
          /\ RecoverOldTx(f, flows[f].tx, flows[f].reply.value) /\ flows[f].reply.kind = "Value"
      BY <1>9 DEF OnInterimBalance, Replied, OwnMemo
    <2>2. Waits(flows[f].tx) /\ flows[f].tx \in TransferRecord
      BY <2>1, OwnKnown
    <2>3. flows[f].reply.value = 0 <=> flows[f].tx.stage = "First"
      BY <1>2, <2>1 DEF FlowKnows
    <2>4. CASE Reject(f, flows[f].tx)
      BY <2>1, <2>2, <2>4, RejectKnows
    <2>5. CASE /\ recovery' = recovery
               /\ flows' = [flows EXCEPT ![f] = Send(f, Renew(flows[f].tx, clock), NRetries, TRUE)]
      <3>1. Waits(Renew(flows[f].tx, clock))
        BY <1>1, <2>2, WaitsStays
      <3>2. PICK r : r = Send(f, Renew(flows[f].tx, clock), NRetries, TRUE)
        OBVIOUS
      <3>3. /\ r.call = "transfer" /\ r.tx = Renew(flows[f].tx, clock) /\ r.reply = NoReply
            /\ r.queue = flows[f].queue
        BY <1>1, <3>2 DEF Send, FlowRecord
      <3>4. FlowKnows(r)
        BY <2>1, <3>1, <3>3, OwnKnown, AwaitingKnows
      <3> QED
        BY <2>1, <2>5, <3>2, <3>4, OwnKnown, FlowKnowsNext
    <2> QED
      BY <2>1, <2>3, <2>4, <2>5 DEF RecoverOldTx
  <1>10. CASE OnQueryFailed(f)
    BY <1>3, <1>10 DEF OnQueryFailed
  <1> QED
    BY <1>4, <1>5, <1>6, <1>7, <1>8, <1>9, <1>10 DEF Continue

\* A new transfer has an interim account that nothing was ever paid to, and no
\* block of the ledger is its own.
LEMMA BeginKnows ==
  ASSUME TerminalInv, KnownInv, DistinctAmounts, NEW f \in Flow,
         flows[f].call \in {"None", "deposit_balance"}, NEW op \in Operation, NEW amount \in Nat,
         op = "CreditOnError" => amount \in Amounts,
         NEW fee \in Nat, NEW tx, tx = NewTransfer(op, amount, fee, clock, Len(requests) + 1), Begin(f, tx)
  PROVE  KnownInv'
  <1>1. PICK l \in Nat : l = Len(requests) /\ DOMAIN requests = 1 .. l /\ requests \in Seq(TransferRecord)
    BY DEF TerminalInv, HistoryInv
  <1>2. /\ tx.operation = op /\ tx.amount = amount /\ tx.fee = fee /\ tx.created_at = clock /\ tx.memo = l + 1
        /\ tx.stage = (IF op = "CreditOnSuccess" THEN "Single" ELSE "First")
        /\ tx.interim = [kind |-> "interim", amount |-> amount, created_at |-> clock]
    BY <1>1 DEF NewTransfer
  <1>3. tx \in TransferRecord
    <2>1. clock \in Nat /\ l + 1 \in Nat
      BY <1>1, LedgerTyped
    <2>2. PICK next \in Nat : next = l + 1
      BY <2>1
    <2>3. NewTransfer(op, amount, fee, clock, next) \in TransferRecord
      BY <2>1, NewTransferType
    <2> QED
      BY <1>1, <2>2, <2>3
  <1>4. /\ requests' = Append(requests, tx) /\ recovery' = recovery
        /\ funds' = funds /\ blocks' = blocks /\ ledger_fee' = ledger_fee
        /\ \A m \in DOMAIN requests : requests[m].amount # amount
    BY <1>2 DEF Begin, ledger
  <1>5. /\ DOMAIN requests' = 1 .. (l + 1) /\ requests'[l + 1] = tx
        /\ \A m \in DOMAIN requests : requests'[m] = requests[m] /\ m # l + 1 /\ m \in DOMAIN requests'
        /\ \A m \in DOMAIN requests' : m = l + 1 \/ m \in DOMAIN requests
    BY <1>1, <1>3, <1>4
  <1>6. (\A a : BalanceOf(a)' = BalanceOf(a)) /\ \A m, kind : BlocksOf(m, kind)' = BlocksOf(m, kind)
    BY <1>4 DEF BalanceOf, BlocksOf
  <1>7. \A t : t.memo \in DOMAIN requests /\ PartOf(t) => PartOf(t)'
    BY <1>5 DEF PartOf
  <1>8. \A t : (ToDo(t) => ToDo(t)') /\ (Moved(t) => Moved(t)')
    <2>1. \A t : ToDo(t) => ToDo(t)'
      BY <1>4, <1>6 DEF ToDo
    <2>2. \A t : Moved(t) => Moved(t)'
      BY <1>6 DEF Moved
    <2> QED
      BY <2>1, <2>2
  <1>9. RequestsInv'
    <2>1. \A m \in DOMAIN requests :
            /\ requests[m] = NewTransfer(requests[m].operation, requests[m].amount, requests[m].fee,
                                         requests[m].created_at, m)
            /\ \A k \in DOMAIN requests : requests[k].amount = requests[m].amount => k = m
      BY DEF KnownInv, RequestsInv
    <2>2. tx = NewTransfer(tx.operation, tx.amount, tx.fee, tx.created_at, l + 1)
      BY <1>1, <1>2
    <2>3. \A m \in DOMAIN requests' :
            requests'[m] = NewTransfer(requests'[m].operation, requests'[m].amount, requests'[m].fee,
                                       requests'[m].created_at, m)
      BY <1>5, <2>1, <2>2
    <2>4. \A m, k \in DOMAIN requests' : requests'[k].amount = requests'[m].amount => k = m
      BY <1>2, <1>4, <1>5, <2>1
    <2> QED
      BY <2>3, <2>4 DEF RequestsInv
  <1>10. StepBlocksInv'
    BY <1>4, <1>5 DEF KnownInv, StepBlocksInv
  <1>11. BalanceOf(tx.interim) = 0
    <2>1. \A a \in DOMAIN funds : a.kind = "interim" => \E m \in DOMAIN requests : a = requests[m].interim
      BY DEF KnownInv, StepBlocksInv
    <2>2. \A m \in DOMAIN requests : requests[m].interim.amount = requests[m].amount
      BY RequestMade DEF KnownInv
    <2>3. tx.interim.kind = "interim" /\ tx.interim.amount = amount
      BY <1>2
    <2>4. tx.interim \notin DOMAIN funds
      BY <1>4, <2>1, <2>2, <2>3
    <2> QED
      BY <2>4 DEF BalanceOf
  <1>12. \A t \in recovery : Waits(t)'
    BY <1>7, <1>8, MemosKnown DEF KnownInv, Waits
  <1>13. Waits(tx)'
    <2>1. PartOf(tx)'
      BY <1>2, <1>5 DEF PartOf
    <2>2. \A b \in blocks : b.memo # tx.memo
      BY <1>2, <1>5 DEF KnownInv, StepBlocksInv
    <2>3. ToDo(tx)
      BY <1>2, <1>11, <2>2 DEF ToDo
    <2> QED
      BY <1>8, <2>1, <2>3 DEF Waits
  <1>14. PICK n : n = [Send(f, tx, NRetries, FALSE) EXCEPT !.fee = tx.fee]
    OBVIOUS
  <1>15. n.call = "transfer" /\ n.tx = tx /\ n.queue = {} /\ n.reply = NoReply
    <2>1. flows[f] \in FlowRecord /\ flows[f].queue = {}
      BY Typed DEF CleanFlow
    <2> QED
      BY <1>14, <2>1 DEF Send, FlowRecord
  <1>16. FlowKnows(n)'
    BY <1>13, <1>15 DEF FlowKnows, NoReply, Waits
  <1>17. \A g \in Flow : flows'[g] = IF g = f THEN n ELSE flows[g]
    BY <1>14 DEF TerminalInv, CanisterInv, Begin
  <1>18. \A g \in Flow : FlowKnows(flows[g])'
    <2> SUFFICES ASSUME NEW g \in Flow PROVE FlowKnows(flows[g])'
      OBVIOUS
    <2>1. CASE g = f
      BY <1>16, <1>17, <2>1
    <2>2. CASE g # f
      <3>1. PICK r : r = flows[g] /\ r = flows'[g]
        BY <1>17, <2>2
      <3>2. /\ OwnMemo(r) => r.tx.memo \in DOMAIN requests
            /\ \A t \in r.queue : t.memo \in DOMAIN requests
            /\ FlowKnows(r)
        BY <3>1, MemosKnown DEF KnownInv
      <3>3. \A t \in r.queue : Waits(t)'
        BY <1>7, <1>8, <3>2 DEF FlowKnows, Waits
      <3>4. FlowKnows(r)'
        BY <1>7, <1>8, <3>2, <3>3 DEF FlowKnows, OwnMemo
      <3> QED
        BY <3>1, <3>4
    <2> QED
      BY <2>1, <2>2
  <1>19. \A m \in DOMAIN requests' : requests'[m].operation = "CreditOnError" => requests'[m].amount \in Amounts
    BY <1>2, <1>5 DEF KnownInv
  <1>20. (\A g \in Flow : FlowKnows(flows[g]))' /\ (\A t \in recovery : Waits(t))'
    BY <1>4, <1>12, <1>18
  <1> QED
    BY <1>4, <1>9, <1>10, <1>19, <1>20 DEF KnownInv

LEMMA DepositKnows ==
  ASSUME TerminalInv, KnownInv, DistinctAmounts, NEW f \in Flow, NEW amount \in Amounts,
         Deposit(f, amount) \/ Withdraw(f, amount)
  PROVE  KnownInv'
  <1>1. PICK op \in Operation : Begin(f, New(op, amount))
    BY DEF Deposit, Withdraw, Operation
  <1>2. amount \in Nat /\ saved_fee \in Nat
    BY Constants, ListTyped
  <1>3. flows[f].call = "None"
    BY DEF Deposit, Withdraw, Busy
  <1>4. PICK tx : tx = New(op, amount)
    OBVIOUS
  <1>5. tx = NewTransfer(op, amount, saved_fee, clock, Len(requests) + 1)
    BY <1>4 DEF New
  <1> QED
    BY <1>1, <1>2, <1>3, <1>4, <1>5, BeginKnows

LEMMA DepositAllKnows ==
  ASSUME TerminalInv, KnownInv, DistinctAmounts, NEW f \in Flow, DepositAll(f) \/ OnDepositBalance(f)
  PROVE  KnownInv'
  <1>1. CASE DepositAll(f)
    <2>1. PICK n : n = [Idle EXCEPT !.call = "deposit_balance", !.fee = saved_fee]
      OBVIOUS
    <2>2. n.call = "deposit_balance" /\ n.reply = NoReply /\ n.queue = {}
      BY <2>1 DEF Idle
    <2>3. FlowKnows(n)
      BY <2>2, AwaitingKnows DEF OwnMemo
    <2>4. flows' = [flows EXCEPT ![f] = n] /\ UNCHANGED << recovery, ledger, requests >>
      BY <1>1, <2>1 DEF DepositAll, history
    <2>5. \A t \in recovery' : Waits(t)
      BY <2>4 DEF KnownInv
    <2> QED
      BY <2>3, <2>4, <2>5, FlowKnowsNext
  <1>2. CASE OnDepositBalance(f)
    <2>1. PICK op, amount, fee : op = "CreditOnSuccess" /\ amount = flows[f].reply.value /\ fee = flows[f].fee
      OBVIOUS
    <2>2. /\ op \in Operation /\ op # "CreditOnError" /\ amount \in Nat /\ fee \in Nat
          /\ flows[f].call = "deposit_balance"
      <3>1. flows[f] \in FlowRecord
        BY Typed
      <3> QED
        BY <1>2, <2>1, <3>1 DEF Operation, FlowRecord, ReplyRecord, OnDepositBalance, Replied
    <2>3. PICK tx : tx = NewTransfer(op, amount, fee, clock, Len(requests) + 1)
      OBVIOUS
    <2>4. \/ Begin(f, tx)
          \/ flows' = [flows EXCEPT ![f] = Idle] /\ UNCHANGED << recovery, ledger, requests >>
      BY <1>2, <2>1, <2>3 DEF OnDepositBalance, history
    <2>5. CASE Begin(f, tx)
      BY <2>2, <2>3, <2>5, BeginKnows
    <2>6. CASE flows' = [flows EXCEPT ![f] = Idle] /\ UNCHANGED << recovery, ledger, requests >>
      <3>1. \A t \in recovery' : Waits(t)
        BY <2>6 DEF KnownInv
      <3> QED
        BY <2>6, <3>1, IdleKnows, FlowKnowsNext
    <2> QED
      BY <2>4, <2>5, <2>6
  <1> QED
    BY <1>1, <1>2

LEMMA RecoverAllKnows ==
  ASSUME TerminalInv, KnownInv, NEW f \in Flow, RecoverAll(f)
  PROVE  KnownInv'
  <1>1. recovery' = {} /\ UNCHANGED << ledger, requests >>
    BY DEF RecoverAll, Taken
  <1>2. \A t \in recovery : t \in TransferRecord /\ Waits(t)
    BY ListTyped DEF KnownInv
  <1>3. CASE UNCHANGED flows
    <2>1. \A g \in Flow : FlowKnows(flows'[g])
      BY <1>3 DEF KnownInv
    <2>2. UNCHANGED << funds, blocks, requests >> /\ ledger_fee' \in LedgerFees
      BY <1>1 DEF ledger, KnownInv
    <2> QED
      BY <1>1, <2>1, <2>2, CanisterKnows
  <1>4. CASE \E t \in recovery, rest \in SUBSET recovery :
               /\ ~ TooOld(t)
               /\ flows' = [flows EXCEPT ![f] = [Recover(f, t) EXCEPT !.fee = saved_fee, !.queue = rest]]
    <2>1. PICK t \in recovery, rest \in SUBSET recovery :
            /\ ~ TooOld(t)
            /\ flows' = [flows EXCEPT ![f] = [Recover(f, t) EXCEPT !.fee = saved_fee, !.queue = rest]]
      BY <1>4
    <2>2. PICK n : n = [Recover(f, t) EXCEPT !.fee = saved_fee, !.queue = rest]
      OBVIOUS
    <2>3. FlowKnows(n)
      BY <1>2, <2>1, <2>2, RecoverKnows
    <2> QED
      BY <1>1, <2>1, <2>2, <2>3, FlowKnowsNext
  <1> QED
    BY <1>3, <1>4 DEF RecoverAll

LEMMA SetFeeKnows ==
  ASSUME TerminalInv, KnownInv, NEW fee \in AdminFees, SetFee(fee)
  PROVE  KnownInv'
  <1>1. /\ fee \in Nat /\ recovery' \in Rewritten(fee)
        /\ UNCHANGED << flows, funds, blocks, requests >> /\ ledger_fee' \in LedgerFees
    BY Constants DEF SetFee, history, ledger, KnownInv
  <1>2. \A t \in recovery' : Waits(t)
    BY <1>1, RewrittenKnows
  <1>3. \A g \in Flow : FlowKnows(flows'[g])
    BY <1>1 DEF KnownInv
  <1> QED
    BY <1>1, <1>2, <1>3, CanisterKnows

\* Nobody is told that the ledger's fee changes, or that time passes.
LEMMA EnvironmentKnows ==
  ASSUME KnownInv, LedgerFeeChanges \/ Tick \/ UNCHANGED vars
  PROVE  KnownInv'
  <1>1. UNCHANGED << flows, recovery, funds, blocks, requests >> /\ ledger_fee' \in LedgerFees
    BY DEF LedgerFeeChanges, Tick, vars, canister, history, ledger, KnownInv
  <1>2. (\A f \in Flow : FlowKnows(flows'[f])) /\ \A t \in recovery' : Waits(t)
    BY <1>1 DEF KnownInv
  <1> QED
    BY <1>1, <1>2, CanisterKnows

-----------------------------------------------------------------------------
(* Steps of the ledger *)

\* What an answer tells, of a transfer that waits
LEMMA AnswersKnown ==
  ASSUME TerminalInv, NEW tx \in TransferRecord, ToDo(tx), tx.interim.kind = "interim"
  PROVE  LET answer == Answer(tx)
         IN  /\ answer.kind \in {"BadFee", "TooOld", "InsufficientFunds", "Ok"}
             /\ answer.kind = "Ok" =>
                  tx.fee = ledger_fee /\ BalanceOf(From(tx)) >= AmountMinusFee(tx) + tx.fee
  <1>1. Block(tx).memo = tx.memo /\ Block(tx).from = From(tx)
    BY DEF Block
  <1>2. Block(tx) \notin blocks
    <2>1. CASE tx.stage # "Second"
      BY <1>1, <2>1 DEF ToDo
    <2>2. CASE tx.stage = "Second"
      BY <1>1, <2>2 DEF ToDo, From, BlocksOf
    <2> QED
      BY <2>1, <2>2
  <1>3. clock \in Nat /\ DedupPeriod \in Nat /\ tx.created_at \in Nat /\ tx.fee \in Nat
    BY LedgerTyped DEF TransferRecord
  <1>4. AmountMinusFee(tx) \in Nat /\ BalanceOf(From(tx)) \in Nat
    BY <1>3, LedgerTyped, TransferTypes
  <1> QED
    BY <1>2, <1>3, <1>4 DEF Answer, Reply

\* The accounts of a step of a request
LEMMA StepAccounts ==
  ASSUME TerminalInv, KnownInv, NEW tx \in TransferRecord, tx.memo \in DOMAIN requests, PartOf(tx)
  PROVE  /\ tx.interim = requests[tx.memo].interim /\ tx.interim.kind = "interim"
         /\ From(tx).kind = "interim" => tx.stage = "Second" /\ From(tx) = tx.interim
         /\ To(tx).kind = "interim" => tx.stage = "First" /\ To(tx) = tx.interim
         /\ tx.stage = "Single" => From(tx).kind = "deposit" /\ To(tx) = Own("main")
         /\ tx.stage = "First" => From(tx) = Own("main") /\ From(tx).kind = "main" /\ To(tx) = tx.interim
         /\ tx.stage = "Second" => From(tx) = tx.interim /\ To(tx).kind = "user"
         /\ tx.stage \in {"Single", "First", "Second"}
  <1>1. tx.interim = requests[tx.memo].interim /\ tx.interim.kind = "interim"
    BY RequestMade DEF PartOf, KnownInv
  <1>2. tx.stage \in {"Single", "First", "Second"}
    BY DEF TransferRecord, Stage
  <1>3. CASE tx.stage = "Single"
    BY <1>1, <1>3 DEF From, To, Own
  <1>4. CASE tx.stage = "First"
    BY <1>1, <1>4 DEF From, To, Own
  <1>5. CASE tx.stage = "Second"
    BY <1>1, <1>5 DEF From, To, Own
  <1> QED
    BY <1>2, <1>3, <1>4, <1>5

\* What is on the ledger of a request
SameOnLedger(k) ==
  /\ \A kind : BlocksOf(k, kind)' = BlocksOf(k, kind)
  /\ (\A b \in blocks : b.memo # k) => \A b \in blocks' : b.memo # k
  /\ BalanceOf(requests[k].interim)' = BalanceOf(requests[k].interim)

\* The ledger executes a step that waits for it.
LEMMA ExecuteKnows ==
  ASSUME TerminalInv, KnownInv, NEW tx \in TransferRecord, tx.memo \in DOMAIN requests, Waits(tx),
         Answer(tx).kind = "Ok", Execute(tx), UNCHANGED << ledger_fee, requests >>
  PROVE  /\ StepBlocksInv' /\ Moved(tx)'
         /\ \A k \in DOMAIN requests : k # tx.memo => SameOnLedger(k)
  <1>1. PartOf(tx) /\ ToDo(tx)
    BY DEF Waits
  <1>2. PICK m \in DOMAIN requests : m = tx.memo
    OBVIOUS
  <1>3. PICK stage, interim, from, to : stage = tx.stage /\ interim = tx.interim /\ from = From(tx) /\ to = To(tx)
    OBVIOUS
  <1>4. /\ interim = requests[m].interim /\ interim.kind = "interim"
        /\ from.kind = "interim" => stage = "Second" /\ from = interim
        /\ to.kind = "interim" => stage = "First" /\ to = interim
        /\ stage = "Single" => from.kind = "deposit"
        /\ stage = "First" => from.kind = "main" /\ to = interim
        /\ stage = "Second" => from = interim /\ to.kind = "user"
        /\ stage \in {"Single", "First", "Second"}
    BY <1>1, <1>2, <1>3, StepAccounts
  <1>5. tx.fee = ledger_fee /\ BalanceOf(from) >= AmountMinusFee(tx) + tx.fee
    BY <1>1, <1>3, <1>4, AnswersKnown
  <1>6. PICK net \in Nat, fee \in Nat, block \in {Block(tx)} : net = AmountMinusFee(tx) /\ fee = tx.fee
    BY TransferTypes DEF TransferRecord
  <1>7. block.memo = m /\ block.from = from /\ block.amount = net
    BY <1>2, <1>3, <1>6 DEF Block
  <1>8. blocks' = blocks \cup {block} /\ DOMAIN funds' = DOMAIN funds \cup {to}
    BY <1>3, <1>6 DEF Execute
  <1>9. \A k, kind : BlocksOf(k, kind)' =
           IF k = m /\ kind = from.kind THEN BlocksOf(k, kind) \cup {block} ELSE BlocksOf(k, kind)
    BY <1>7, <1>8 DEF BlocksOf
  <1>10. /\ stage # "Second" => \A b \in blocks : b.memo # m
         /\ stage = "First" => BalanceOf(interim) = 0
         /\ stage = "Second" =>
              BlocksOf(m, "main") # {} /\ BlocksOf(m, "interim") = {} /\ BalanceOf(interim) = tx.amount
    BY <1>1, <1>2, <1>3 DEF ToDo
  <1>11. StepBlocksInv'
    <2>1. \A b \in blocks' : b.memo \in DOMAIN requests'
      BY <1>7, <1>8 DEF KnownInv, StepBlocksInv
    <2>2. \A b \in blocks : ~ (b.memo = m /\ b.from.kind = from.kind)
      BY <1>4, <1>10 DEF BlocksOf
    <2>3. \A b, c \in blocks : b.memo = c.memo /\ b.from.kind = c.from.kind => b = c
      BY DEF KnownInv, StepBlocksInv
    <2>4. \A b, c \in blocks' : b.memo = c.memo /\ b.from.kind = c.from.kind => b = c
      BY <1>7, <1>8, <2>2, <2>3
    <2>5. \A a \in DOMAIN funds' : a.kind = "interim" => \E k \in DOMAIN requests' : a = requests'[k].interim
      BY <1>4, <1>8 DEF KnownInv, StepBlocksInv
    <2> QED
      BY <2>1, <2>4, <2>5 DEF StepBlocksInv
  <1>12. \A a : BalanceOf(a)' = BalanceOf(a) + (IF a = to THEN net ELSE 0) - (IF a = from THEN net + fee ELSE 0)
    BY <1>3, <1>5, <1>6, BalanceAfter
  <1>13. \A a : BalanceOf(a) \in Nat
    BY LedgerTyped
  <1>14. ASSUME NEW k \in DOMAIN requests, k # m PROVE SameOnLedger(k)
    <2>1. PICK other : other = requests[k].interim
      OBVIOUS
    <2>2. other.kind = "interim" /\ other # interim
      BY <1>2, <1>4, <1>14, <2>1, RequestMade DEF KnownInv, RequestsInv
    <2>3. other # to /\ other # from
      BY <1>4, <2>2
    <2>4. BalanceOf(other)' = BalanceOf(other)
      BY <1>12, <1>13, <2>3
    <2>5. BalanceOf(requests[k].interim)' = BalanceOf(other)'
      BY <2>1 DEF BalanceOf
    <2>6. \A b \in blocks' : b \in blocks \/ b.memo # k
      BY <1>7, <1>8, <1>14
    <2> QED
      BY <1>9, <1>14, <2>1, <2>4, <2>5, <2>6 DEF SameOnLedger
  <1>15. Moved(tx)'
    <2>1. tx.fee \in LedgerFees
      BY <1>5 DEF KnownInv
    <2>2. stage = "Single" => {b.amount : b \in BlocksOf(m, "deposit")'} = {net}
      <3>1. stage = "Single" => BlocksOf(m, "deposit") = {}
        BY <1>10 DEF BlocksOf
      <3>2. stage = "Single" => BlocksOf(m, "deposit")' = {block}
        BY <1>4, <1>9, <3>1
      <3> QED
        BY <1>7, <3>2
    <2>3. stage # "Single" => BlocksOf(m, "main")' # {}
      BY <1>4, <1>9, <1>10
    <2>4. stage = "First" => BlocksOf(m, "interim")' = {}
      BY <1>4, <1>9, <1>10 DEF BlocksOf
    <2>5. stage = "First" => BalanceOf(interim)' = net
      BY <1>4, <1>10, <1>12
    <2>6. stage = "Second" => BlocksOf(m, "interim")' # {}
      BY <1>4, <1>9
    <2> QED
      BY <1>2, <1>3, <1>6, <2>1, <2>2, <2>3, <2>4, <2>5, <2>6 DEF Moved
  <1> QED
    BY <1>2, <1>11, <1>14, <1>15

\* What is known of a transfer stays known while the ledger does nothing for
\* its request.
LEMMA OthersKnow ==
  ASSUME KnownInv, UNCHANGED requests, NEW t, t.memo \in DOMAIN requests, PartOf(t), SameOnLedger(t.memo)
  PROVE  PartOf(t)' /\ (ToDo(t) => ToDo(t)') /\ (Moved(t) => Moved(t)')
  <1>1. PICK interim : interim = t.interim /\ interim = requests[t.memo].interim
    BY DEF PartOf
  <1>2. BalanceOf(requests[t.memo].interim)' = BalanceOf(interim)'
    BY <1>1 DEF BalanceOf
  <1>3. BalanceOf(interim)' = BalanceOf(interim)
    BY <1>1, <1>2 DEF SameOnLedger
  <1>4. PartOf(t)'
    BY DEF PartOf
  <1>5. ToDo(t) => ToDo(t)'
    BY <1>1, <1>3 DEF ToDo, SameOnLedger
  <1>6. Moved(t) => Moved(t)'
    BY <1>1, <1>3 DEF Moved, SameOnLedger
  <1> QED
    BY <1>4, <1>5, <1>6

\* A reply for flow f, when the ledger did something for its transfer at most
LEMMA HandledKnows ==
  ASSUME TerminalInv, KnownInv, NEW f \in Flow, NEW call, NEW reply, Handled(f, call, reply),
         StepBlocksInv',
         \A k \in DOMAIN requests : (OwnMemo(flows[f]) => k # flows[f].tx.memo) => SameOnLedger(k),
         NEW n, n = [flows[f] EXCEPT !.reply = reply],
         OwnMemo(n) =>
           PartOf(n.tx)' /\ IF n.call = "transfer" /\ n.reply.kind = "Ok" THEN Moved(n.tx)' ELSE ToDo(n.tx)',
         n.reply.kind \notin {"Duplicate", "MaybeFailed", "Unavailable"},
         n.call = "interim_balance" /\ n.reply.kind = "Value" => (n.reply.value = 0 <=> n.tx.stage = "First")
  PROVE  KnownInv'
  <1>1. /\ flows' = [flows EXCEPT ![f] = n] /\ recovery' = recovery /\ requests' = requests
        /\ ledger_fee' = ledger_fee
    BY DEF Handled, history
  <1>2. flows \in [Flow -> FlowRecord] /\ flows[f] \in FlowRecord /\ CleanFlow(flows[f])
    BY Typed
  <1>3. \A g \in Flow : flows'[g] = IF g = f THEN n ELSE flows[g]
    BY <1>1, <1>2
  <1>4. \A t : /\ t.memo \in DOMAIN requests /\ PartOf(t)
               /\ OwnMemo(flows[f]) => t.memo # flows[f].tx.memo
               => PartOf(t)' /\ (ToDo(t) => ToDo(t)') /\ (Moved(t) => Moved(t)')
    BY <1>1, OthersKnow
  <1>5. \A t : /\ t.memo \in DOMAIN requests /\ Waits(t)
               /\ OwnMemo(flows[f]) => t.memo # flows[f].tx.memo
               => Waits(t)'
    BY <1>4 DEF Waits
  <1>6. \A m \in Nat : OwnMemo(flows[f]) /\ m = flows[f].tx.memo => Holds(flows[f], m) /\ ~ Lists(recovery, m)
    BY ListTyped DEF Holds
  <1>7. \A t \in recovery : Waits(t)'
    <2> SUFFICES ASSUME NEW t \in recovery PROVE Waits(t)'
      OBVIOUS
    <2>1. t \in TransferRecord /\ t.memo \in DOMAIN requests /\ Waits(t)
      BY MemosKnown DEF KnownInv
    <2>2. t.memo \in Nat
      BY <2>1 DEF TransferRecord
    <2>3. OwnMemo(flows[f]) => t.memo # flows[f].tx.memo
      BY <1>6, <2>2 DEF Lists
    <2> QED
      BY <1>5, <2>1, <2>3
  <1>8. n.queue = flows[f].queue /\ n.call = flows[f].call /\ n.tx = flows[f].tx
    BY <1>2 DEF FlowRecord
  <1>9. \A t \in flows[f].queue : Waits(t)'
    <2>1. \A t \in flows[f].queue : t.memo \in DOMAIN requests /\ Waits(t)
      BY MemosKnown DEF KnownInv, FlowKnows
    <2>2. OwnMemo(flows[f]) => \A t \in flows[f].queue : t.memo # flows[f].tx.memo
      BY <1>2 DEF CleanFlow
    <2> QED
      BY <1>5, <2>1, <2>2
  <1>10. FlowKnows(n)'
    <2>1. n.call = "interim_balance" => n.tx.stage # "Single"
      BY <1>8 DEF KnownInv, FlowKnows
    <2> QED
      BY <1>8, <1>9, <2>1 DEF FlowKnows
  <1>11. ASSUME NEW g \in Flow, g # f PROVE FlowKnows(flows[g])'
    <2>1. PICK r : r = flows[g] /\ r = flows'[g]
      BY <1>3, <1>11
    <2>2. /\ OwnMemo(r) => r.tx.memo \in DOMAIN requests
          /\ \A t \in r.queue : Waits(t) /\ t.memo \in DOMAIN requests
          /\ FlowKnows(r)
      BY <2>1, MemosKnown DEF KnownInv, FlowKnows
    <2>3. \A m \in Nat : Holds(r, m) => ~ Holds(flows[f], m)
      BY <1>11, <2>1, HeldByHolds DEF TerminalInv, OwnerInv
    <2>4. /\ OwnMemo(r) => r.tx.memo \in Nat /\ Holds(r, r.tx.memo)
          /\ \A t \in r.queue : t.memo \in Nat /\ Holds(r, t.memo)
      BY <2>1, Typed DEF Holds
    <2>5. OwnMemo(flows[f]) => Holds(flows[f], flows[f].tx.memo)
      BY DEF Holds
    <2>6. \A t \in r.queue : Waits(t)'
      BY <1>5, <2>2, <2>3, <2>4, <2>5
    <2>7. OwnMemo(r) => PartOf(r.tx)' /\ (ToDo(r.tx) => ToDo(r.tx)') /\ (Moved(r.tx) => Moved(r.tx)')
      BY <1>4, <2>2, <2>3, <2>4, <2>5 DEF FlowKnows
    <2>8. FlowKnows(r)'
      BY <2>2, <2>6, <2>7 DEF FlowKnows, OwnMemo
    <2> QED
      BY <2>1, <2>8
  <1>12. (\A g \in Flow : FlowKnows(flows[g]))'
    <2> SUFFICES ASSUME NEW g \in Flow PROVE FlowKnows(flows[g])'
      OBVIOUS
    <2>1. CASE g = f
      BY <1>3, <1>10, <2>1
    <2> QED
      BY <1>11, <2>1
  <1>13. (\A t \in recovery : Waits(t))'
    BY <1>1, <1>7
  <1>14. RequestsInv'
    BY <1>1 DEF KnownInv, RequestsInv
  <1> QED
    BY <1>1, <1>12, <1>13, <1>14 DEF KnownInv

\* What the second step of a withdrawal moves is more than the fee.
LEMMA SecondIsPaid ==
  ASSUME TerminalInv, KnownInv, FeesPaid, NEW t \in TransferRecord, t.memo \in DOMAIN requests, PartOf(t),
         t.stage = "Second"
  PROVE  \A fee \in LedgerFees : t.amount > fee
  <1> SUFFICES ASSUME NEW fee \in LedgerFees PROVE t.amount > fee
    OBVIOUS
  <1>1. PICK paid \in LedgerFees : requests[t.memo].amount = t.amount + paid
    BY DEF PartOf
  <1>2. requests[t.memo].stage = "First" /\ requests[t.memo] \in TransferRecord
    BY LedgerTyped DEF PartOf
  <1>3. requests[t.memo].operation = "CreditOnError"
    BY <1>2, RequestMade DEF TransferRecord, Operation, KnownInv
  <1>4. PICK amount \in Amounts : amount = requests[t.memo].amount
    BY <1>3 DEF KnownInv
  <1>5. amount > 2 * paid /\ amount > 2 * fee
    BY DEF FeesPaid
  <1>6. amount \in Nat /\ paid \in Nat /\ fee \in Nat /\ t.amount \in Nat
    BY Constants DEF TransferRecord
  <1> QED
    BY <1>1, <1>4, <1>5, <1>6

LEMMA LedgerStepKnows ==
  ASSUME TerminalInv, KnownInv, Lossless, FeesPaid, NEW f \in Flow, LedgerStep(f)
  PROVE  KnownInv'
  <1>1. ~ Fault
    BY DEF Fault, Lossless, TerminalInv, LedgerInv
  <1>2. PICK tx : tx = flows[f].tx
    OBVIOUS
  <1>3. OwnMemo(flows[f]) /\ flows[f].reply = NoReply =>
          /\ tx \in TransferRecord /\ tx.memo \in DOMAIN requests /\ PartOf(tx) /\ ToDo(tx) /\ Waits(tx)
    BY <1>2, OwnKnown DEF NoReply
  <1>4. flows[f] \in FlowRecord
    BY Typed
  \* The ledger does nothing for anybody.
  <1>5. ASSUME NEW call, NEW reply, Handled(f, call, reply), UNCHANGED << blocks, funds >>,
               reply.kind \notin {"Ok", "Duplicate", "MaybeFailed", "Unavailable"},
               call = "interim_balance" /\ reply.kind = "Value" => reply.value = BalanceOf(tx.interim)
        PROVE  KnownInv'
    <2>1. flows[f].call = call /\ flows[f].reply = NoReply /\ requests' = requests
      BY <1>5 DEF Handled, history
    <2>2. PICK n : n = [flows[f] EXCEPT !.reply = reply]
      OBVIOUS
    <2>3. n.call = call /\ n.reply = reply /\ n.tx = tx
      BY <1>2, <1>4, <2>1, <2>2 DEF FlowRecord
    <2>4. \A t : (PartOf(t) => PartOf(t)') /\ (ToDo(t) => ToDo(t)')
      BY <1>5, <2>1, LedgerKnown
    <2>5. OwnMemo(n) =>
            PartOf(n.tx)' /\ IF n.call = "transfer" /\ n.reply.kind = "Ok" THEN Moved(n.tx)' ELSE ToDo(n.tx)'
      BY <1>3, <1>5, <2>1, <2>3, <2>4 DEF OwnMemo
    <2>6. StepBlocksInv'
      BY <1>5, <2>1 DEF KnownInv, StepBlocksInv
    <2>7. \A k \in DOMAIN requests : SameOnLedger(k)
      BY <1>5, <2>1 DEF SameOnLedger, BlocksOf, BalanceOf
    <2>8. ASSUME call = "interim_balance", reply.kind = "Value" PROVE reply.value = 0 <=> tx.stage = "First"
      <3>1. OwnMemo(flows[f]) /\ tx.stage # "Single"
        BY <1>2, <2>1, <2>8 DEF OwnMemo, KnownInv, FlowKnows
      <3>2. tx.stage \in {"First", "Second"}
        BY <1>3, <2>1, <3>1 DEF TransferRecord, Stage
      <3>3. CASE tx.stage = "First"
        BY <1>3, <1>5, <2>1, <2>8, <3>1, <3>3 DEF ToDo
      <3>4. CASE tx.stage = "Second"
        <4>1. reply.value = tx.amount
          BY <1>3, <1>5, <2>1, <2>8, <3>1, <3>4 DEF ToDo
        <4>2. tx.amount > ledger_fee
          BY <1>3, <2>1, <3>1, <3>4, SecondIsPaid DEF KnownInv
        <4>3. ledger_fee \in Nat /\ tx.amount \in Nat
          BY <1>3, <2>1, <3>1, LedgerTyped DEF TransferRecord
        <4> QED
          BY <3>4, <4>1, <4>2, <4>3
      <3> QED
        BY <3>2, <3>3, <3>4
    <2> QED
      BY <1>5, <2>2, <2>3, <2>5, <2>6, <2>7, <2>8, HandledKnows
  <1>6. CASE LedgerTransfers(f)
    <2>1. PICK answer : answer = Answer(tx)
      OBVIOUS
    <2>2. Handled(f, "transfer", answer)
      BY <1>2, <1>6, <2>1 DEF LedgerTransfers
    <2>3. flows[f].call = "transfer" /\ flows[f].reply = NoReply /\ requests' = requests /\ ledger_fee' = ledger_fee
      BY <2>2 DEF Handled, history
    <2>4. OwnMemo(flows[f])
      BY <2>3 DEF OwnMemo
    <2>5. /\ tx \in TransferRecord /\ tx.memo \in DOMAIN requests /\ PartOf(tx) /\ Waits(tx) /\ ToDo(tx)
      BY <1>3, <2>3, <2>4
    <2>6. answer.kind \in {"BadFee", "TooOld", "InsufficientFunds", "Ok"}
      BY <2>1, <2>5, StepAccounts, AnswersKnown
    <2>7. CASE answer.kind = "Ok"
      <3>1. Execute(tx)
        BY <1>2, <1>6, <2>1, <2>7 DEF LedgerTransfers, Executed
      <3>2. /\ StepBlocksInv' /\ Moved(tx)'
            /\ \A k \in DOMAIN requests : k # tx.memo => SameOnLedger(k)
        BY <2>1, <2>3, <2>5, <2>7, <3>1, ExecuteKnows
      <3>3. PICK n : n = [flows[f] EXCEPT !.reply = answer]
        OBVIOUS
      <3>4. n.call = "transfer" /\ n.reply = answer /\ n.tx = tx
        BY <1>2, <1>4, <2>3, <3>3 DEF FlowRecord
      <3>5. PartOf(tx)'
        BY <2>3, <2>5 DEF PartOf
      <3> QED
        BY <1>2, <2>2, <2>4, <2>7, <3>2, <3>3, <3>4, <3>5, HandledKnows
    <2>8. CASE answer.kind # "Ok"
      <3>1. UNCHANGED << blocks, funds >>
        BY <1>2, <1>6, <2>1, <2>8 DEF LedgerTransfers, Executed
      <3> QED
        BY <1>5, <2>2, <2>6, <2>8, <3>1
    <2> QED
      BY <2>7, <2>8
  <1>7. CASE LedgerReads(f)
    <2>1. PICK q \in Query :
            Handled(f, q, Reply("Value",
              CASE q = "deposit_balance" -> BalanceOf(Own("deposit"))
                [] q = "interim_balance" -> BalanceOf(flows[f].tx.interim)
                [] q = "minting_account" -> 0))
      BY <1>7 DEF LedgerReads
    <2>2. PICK reply : /\ Handled(f, q, reply) /\ reply.kind = "Value"
                       /\ q = "interim_balance" => reply.value = BalanceOf(tx.interim)
      BY <1>2, <2>1 DEF Reply
    <2> QED
      BY <1>5, <1>7, <2>2 DEF LedgerReads
  <1> QED
    BY <1>1, <1>6, <1>7 DEF LedgerStep, ReplyLost, CallLost, QueryLost

-----------------------------------------------------------------------------

LEMMA KnownInvInit == Init => KnownInv
  <1> SUFFICES ASSUME Init PROVE KnownInv
    OBVIOUS
  <1>1. /\ flows = [f \in Flow |-> Idle] /\ recovery = {} /\ blocks = {} /\ requests = << >>
        /\ ledger_fee \in LedgerFees
    BY DEF Init
  <1>2. DOMAIN requests = {}
    BY <1>1
  <1>3. \A a \in DOMAIN funds : a.kind # "interim"
    BY DEF Init, Own
  <1>4. RequestsInv /\ StepBlocksInv
    BY <1>1, <1>2, <1>3 DEF RequestsInv, StepBlocksInv
  <1> QED
    BY <1>1, <1>2, <1>4, IdleKnows DEF KnownInv

LEMMA KnownInvNext ==
  ASSUME Lossless, FeesPaid, DistinctAmounts, TerminalInv, KnownInv, [Next]_vars
  PROVE  KnownInv'
  <1>1. CASE \E f \in Flow, amount \in Amounts : Deposit(f, amount) \/ Withdraw(f, amount)
    BY <1>1, DepositKnows
  <1>2. CASE \E f \in Flow : DepositAll(f)
    BY <1>2, DepositAllKnows
  <1>3. CASE \E f \in Flow : RecoverAll(f)
    BY <1>3, RecoverAllKnows
  <1>4. CASE \E f \in Flow : Continue(f)
    BY <1>4, ContinueKnows, DepositAllKnows
  <1>5. CASE \E f \in Flow : LedgerStep(f)
    BY <1>5, LedgerStepKnows
  <1>6. CASE \E fee \in AdminFees : SetFee(fee)
    BY <1>6, SetFeeKnows
  <1>7. CASE LedgerFeeChanges \/ Tick \/ UNCHANGED vars
    BY <1>7, EnvironmentKnows
  <1> QED
    BY <1>1, <1>2, <1>3, <1>4, <1>5, <1>6, <1>7 DEF Next

(***************************************************************************)
(* The inductive invariant of a terminal that always hears from its        *)
(* ledger, whose fee may change at any time: a flow knows what became of   *)
(* its transfer, and each step of a request has one block.                 *)
(***************************************************************************)
THEOREM KnownInvariant ==
  ASSUME Lossless, FeesPaid, DistinctAmounts
  PROVE  Spec => [](TerminalInv /\ KnownInv)
  <1>1. TerminalInv /\ KnownInv /\ [Next]_vars => KnownInv'
    BY KnownInvNext
  <1> QED
    BY <1>1, KnownInvInit, TerminalInvInit, TerminalInvNext, PTL DEF Spec

(***************************************************************************)
(* No step of a transfer is executed twice and nothing is credited twice   *)
(* while the ledger's fee and the configured one change between the        *)
(* attempts of a transfer, which makes each attempt another one to the     *)
(* ledger: with no call lost and amounts that differ and cover the fees.   *)
(***************************************************************************)
THEOREM StepsAreExecutedOnceAtAnyFee ==
  ASSUME Lossless, FeesPaid, DistinctAmounts
  PROVE  Spec => []ExactlyOnce
  <1>1. TerminalInv /\ KnownInv => ExactlyOnce
    <2> SUFFICES ASSUME TerminalInv, KnownInv, NEW m \in DOMAIN requests
                 PROVE  /\ \A kind \in {"main", "deposit", "interim"} : Cardinality(BlocksOf(m, kind)) <= 1
                        /\ Len(credits[m]) <= 1
      BY DEF ExactlyOnce
    <2>1. Len(credits[m]) <= 1
      BY DEF TerminalInv, HistoryInv, OwnerInv
    <2>2. ASSUME NEW kind PROVE Cardinality(BlocksOf(m, kind)) <= 1
      <3>1. \A b, c \in BlocksOf(m, kind) : b = c
        BY DEF BlocksOf, KnownInv, StepBlocksInv
      <3> QED
        BY <3>1, AtMostOne
    <2> QED
      BY <2>1, <2>2
  <1> QED
    BY <1>1, KnownInvariant, PTL

-----------------------------------------------------------------------------
(* Every transfer is settled or kept, whatever the fees *)

\* The list loses no transfer, since ids tell them apart.
LEMMA IdsDifferAtAnyFee ==
  ASSUME TerminalInv, KnownInv, Spread, NEW t \in TransferRecord, NEW u \in TransferRecord,
         t.memo \in DOMAIN requests, u.memo \in DOMAIN requests, PartOf(t), PartOf(u),
         t.operation = u.operation, t.amount = u.amount
  PROVE  t.memo = u.memo
  <1>1. PICK m \in DOMAIN requests, k \in DOMAIN requests : m = t.memo /\ k = u.memo
    OBVIOUS
  <1>2. PICK a \in Nat, b \in Nat, amount \in Nat :
          a = requests[m].amount /\ b = requests[k].amount /\ amount = t.amount /\ amount = u.amount
    BY LedgerTyped DEF TransferRecord
  <1>3. a = b => m = k
    BY <1>2 DEF KnownInv, RequestsInv
  <1>4. requests[m].operation = requests[k].operation
    BY <1>1 DEF PartOf
  <1>5. CASE requests[m].operation = "CreditOnSuccess"
    <2>1. requests[m].stage = "Single" /\ requests[k].stage = "Single"
      BY <1>4, <1>5, RequestMade DEF KnownInv
    <2>2. t.stage # "Second" /\ u.stage # "Second"
      BY <1>1, <2>1 DEF PartOf
    <2>3. a = b
      BY <1>1, <1>2, <2>2 DEF PartOf
    <2> QED
      BY <1>1, <1>3, <2>3
  <1>6. CASE requests[m].operation # "CreditOnSuccess"
    <2>1. requests[m] \in TransferRecord /\ requests[k] \in TransferRecord
      BY LedgerTyped
    <2>2. requests[m].operation = "CreditOnError" /\ requests[k].operation = "CreditOnError"
      BY <1>4, <1>6, <2>1 DEF TransferRecord, Operation
    <2>3. a \in Amounts /\ b \in Amounts
      BY <1>2, <2>2 DEF KnownInv
    <2>4. PICK paid \in LedgerFees \cup {0} : a = amount + paid
      <3>1. CASE t.stage # "Second"
        <4>1. a = amount + 0
          BY <1>1, <1>2, <3>1 DEF PartOf
        <4> QED
          BY <4>1
      <3>2. CASE t.stage = "Second"
        BY <1>1, <1>2, <3>2 DEF PartOf
      <3> QED
        BY <3>1, <3>2
    <2>5. PICK other \in LedgerFees \cup {0} : b = amount + other
      <3>1. CASE u.stage # "Second"
        <4>1. b = amount + 0
          BY <1>1, <1>2, <3>1 DEF PartOf
        <4> QED
          BY <4>1
      <3>2. CASE u.stage = "Second"
        BY <1>1, <1>2, <3>2 DEF PartOf
      <3> QED
        BY <3>1, <3>2
    <2>6. paid \in Nat /\ other \in Nat
      BY Constants
    <2>7. a + other = b + paid
      BY <2>4, <2>5, <2>6
    <2>8. a = b
      BY <2>3, <2>7 DEF Spread
    <2> QED
      BY <1>1, <1>3, <2>8
  <1> QED
    BY <1>5, <1>6

\* Steps of requests
Parts(list) == \A t \in list : t \in TransferRecord /\ t.memo \in DOMAIN requests /\ PartOf(t)

LEMMA ListParts ==
  ASSUME TerminalInv, KnownInv
  PROVE  Parts(recovery)
  BY MemosKnown DEF Parts, KnownInv, Waits

LEMMA PushedKeepsParts ==
  ASSUME TerminalInv, KnownInv, Spread, NEW list, Parts(list), NEW tx, Parts({tx})
  PROVE  \A m : Lists(list, m) \/ m = tx.memo => Lists(Pushed(list, tx), m)
  <1> SUFFICES ASSUME NEW m, Lists(list, m) \/ m = tx.memo PROVE Lists(Pushed(list, tx), m)
    OBVIOUS
  <1>1. tx \in Pushed(list, tx)
    BY DEF Pushed
  <1>2. CASE m = tx.memo
    BY <1>1, <1>2 DEF Lists
  <1>3. CASE m # tx.memo
    <2>1. PICK t \in list : t.memo = m
      BY <1>3 DEF Lists
    <2>2. Id(t) # Id(tx)
      <3>1. Id(t) = Id(tx) => t.operation = tx.operation /\ t.amount = tx.amount
        BY DEF Id
      <3> QED
        BY <1>3, <2>1, <3>1, IdsDifferAtAnyFee DEF Parts
    <2> QED
      BY <2>1, <2>2 DEF Pushed, Lists
  <1> QED
    BY <1>2, <1>3

LEMMA RewrittenKeepsParts ==
  ASSUME TerminalInv, KnownInv, Spread, NEW fee \in Nat, NEW list \in Rewritten(fee)
  PROVE  Parts(list) /\ \A m : Lists(recovery, m) => Lists(list, m)
  <1>1. /\ list \subseteq TransferRecord
        /\ \A t \in list : \E u \in recovery : t = ResetTs(WithFee(u, fee))
    BY RewrittenList
  <1>2. \A u \in recovery : u \in TransferRecord /\ u.memo \in DOMAIN requests /\ PartOf(u)
    BY ListParts DEF Parts
  <1>3. \A u \in recovery : LET t == ResetTs(WithFee(u, fee))
                            IN  t.memo = u.memo /\ t.operation = u.operation /\ t.amount = u.amount
    BY <1>2 DEF ResetTs, WithFee, TransferRecord
  <1>4. Parts(list)
    BY <1>1, <1>2, <1>3, RewrittenKnows DEF Parts, Waits
  <1>5. ASSUME NEW m, Lists(recovery, m) PROVE Lists(list, m)
    <2>1. PICK u \in recovery : u.memo = m
      BY <1>5 DEF Lists
    <2>2. PICK t \in list : Id(t) = Id(ResetTs(WithFee(u, fee)))
      BY <2>1 DEF Rewritten
    <2>3. t.operation = u.operation /\ t.amount = u.amount
      BY <1>3, <2>1, <2>2 DEF Id
    <2>4. t.memo = u.memo
      BY <1>2, <1>4, <2>1, <2>2, <2>3, IdsDifferAtAnyFee DEF Parts
    <2> QED
      BY <2>1, <2>2, <2>4 DEF Lists
  <1> QED
    BY <1>4, <1>5

\* A deposit that is too old to be recovered is given up.
LEMMA TooOldIsGivenUp ==
  ASSUME KnownInv, UNCHANGED << blocks, clock, requests >>, NEW u, Waits(u), TooOld(u), NEW k \in DOMAIN requests,
         k = u.memo, credits'[k] = << >>, outcome'[k] = "TooOld"
  PROVE  Done(k)'
  <1>1. requests[k].stage = "Single"
    BY DEF Waits, PartOf, TooOld
  <1>2. requests[k].operation = "CreditOnSuccess"
    BY <1>1, RequestMade DEF KnownInv
  <1>3. BlocksOf(k, "deposit") = {}
    BY DEF Waits, ToDo, TooOld, BlocksOf
  <1> QED
    BY <1>2, <1>3, GivenUpIsDone

LEMMA ReturnSettlesParts ==
  ASSUME TerminalInv, KnownInv, SettledInv, UNCHANGED << ledger, clock, requests >>, NEW f \in Flow, OwnMemo(flows[f]),
         NEW fee \in Nat, NEW m, m = flows[f].tx.memo, NEW result, Return(f, fee, m, result),
         \A k \in DOMAIN requests : k # m => credits'[k] = credits[k],
         \A k : Lists(recovery, k) => Lists(recovery', k),
         Lists(recovery', m) \/ (Settled(m)' /\ result # "Recoverable")
  PROVE  SettledInv'
  <1>1. PICK n : /\ flows' = [flows EXCEPT ![f] = n] /\ n.reply = NoReply
                 /\ \A u \in flows[f].queue : TooOld(u) \/ Holds(n, u.memo)
    BY ReturnGoesOn
  <1>2. \A k \in DOMAIN requests :
          outcome'[k] = IF k = m THEN result
                        ELSE IF \E u \in flows[f].queue : TooOld(u) /\ u.memo = k THEN "TooOld" ELSE outcome[k]
    BY ReturnGoesOn
  <1>3. ASSUME NEW k \in DOMAIN requests, Holds(flows[f], k)
        PROVE  Holds(n, k) \/ Lists(recovery', k) \/ Done(k)'
    <2>1. CASE k = m
      BY <1>2, <2>1 DEF Done
    <2>2. CASE k # m
      <3>1. PICK u \in flows[f].queue : u.memo = k
        BY <1>3, <2>2 DEF Holds
      <3>2. CASE TooOld(u)
        <4>1. Waits(u) /\ UNCHANGED << blocks, clock, requests >>
          BY <3>1 DEF KnownInv, FlowKnows, ledger
        <4>2. credits'[k] = << >>
          <5>1. k \in Nat /\ HeldBy(f, k)
            BY <1>3, LedgerTyped, HeldByHolds
          <5>2. credits[k] = << >>
            BY <5>1 DEF TerminalInv, OwnerInv, Live
          <5> QED
            BY <2>2, <5>2
        <4>3. outcome'[k] = "TooOld"
          BY <1>2, <2>2, <3>1, <3>2
        <4> QED
          BY <3>1, <3>2, <4>1, <4>2, <4>3, TooOldIsGivenUp
      <3>3. CASE ~ TooOld(u)
        BY <1>1, <3>1, <3>3
      <3> QED
        BY <3>2, <3>3
    <2> QED
      BY <2>1, <2>2
  <1>4. \A k \in DOMAIN requests : ~ Holds(flows[f], k) => credits'[k] = credits[k] /\ outcome'[k] = outcome[k]
    <2>1. Holds(flows[f], m) /\ \A u \in flows[f].queue : Holds(flows[f], u.memo)
      BY DEF Holds
    <2> QED
      BY <1>2, <2>1
  <1> QED
    BY <1>1, <1>3, <1>4, FlowSettles

\* The request of a flow's transfer
LEMMA OwnRequestKnown ==
  ASSUME TerminalInv, KnownInv, NEW f \in Flow, OwnMemo(flows[f]), NEW m, m = flows[f].tx.memo
  PROVE  /\ m \in DOMAIN requests /\ credits[m] = << >> /\ Parts({flows[f].tx}) /\ Holds(flows[f], m)
         /\ flows[f].tx.operation = requests[m].operation
         /\ flows[f].tx.stage = "Single" <=> requests[m].operation = "CreditOnSuccess"
  <1>1. Parts({flows[f].tx}) /\ Holds(flows[f], m) /\ m \in DOMAIN requests
    BY OwnKnown DEF Parts, Holds
  <1>2. requests[m].stage = IF requests[m].operation = "CreditOnSuccess" THEN "Single" ELSE "First"
    BY <1>1, RequestMade DEF KnownInv
  <1>3. /\ flows[f].tx.operation = requests[m].operation
        /\ flows[f].tx.stage = "Single" <=> requests[m].operation = "CreditOnSuccess"
    BY <1>2, OwnKnown DEF PartOf
  <1>4. m \in Nat /\ HeldBy(f, m)
    BY <1>1, LedgerTyped, HeldByHolds
  <1>5. credits[m] = << >>
    BY <1>4 DEF TerminalInv, OwnerInv, Live
  <1> QED
    BY <1>1, <1>3, <1>5

LEMMA CompleteSettlesParts ==
  ASSUME TerminalInv, KnownInv, SettledInv, FeesPaid, UNCHANGED << ledger, clock, requests >>, NEW f \in Flow,
         OwnMemo(flows[f]), NEW n \in 1 .. NRetries, Complete(f, flows[f].tx, n), Moved(flows[f].tx)
  PROVE  SettledInv'
  <1> DEFINE tx == flows[f].tx
             second == NextStep(tx, clock)
  <1>1. PICK m : m = tx.memo
    OBVIOUS
  <1>2. /\ m \in DOMAIN requests /\ credits[m] = << >> /\ Holds(flows[f], m)
        /\ tx.operation = requests[m].operation
        /\ tx.stage = "Single" <=> requests[m].operation = "CreditOnSuccess"
    BY <1>1, OwnRequestKnown
  <1>3. /\ flows[f] \in FlowRecord /\ tx \in TransferRecord /\ PartOf(tx) /\ clock \in Nat /\ flows[f].fee \in Nat
        /\ requests[m] \in TransferRecord
    BY <1>1, OwnKnown
  <1>4. recovery' = recovery
    BY DEF Complete
  <1>5. CASE tx.stage = "First"
    <2>1. Valid(second)
      <3>1. requests[m].operation = "CreditOnError"
        BY <1>2, <1>3, <1>5 DEF TransferRecord, Operation
      <3>2. tx.amount \in Amounts /\ tx.fee \in LedgerFees
        BY <1>1, <1>2, <1>3, <1>5, <3>1 DEF KnownInv, PartOf, Moved
      <3>3. tx.amount > 2 * tx.fee /\ tx.amount \in Nat /\ tx.fee \in Nat
        BY <3>2, Constants DEF FeesPaid
      <3>4. AmountMinusFee(tx) > tx.fee
        BY <3>3 DEF AmountMinusFee
      <3>5. second.stage = "Second" /\ second.amount = AmountMinusFee(tx) /\ second.fee = tx.fee
        BY <1>3 DEF NextStep, TransferRecord
      <3> QED
        BY <3>4, <3>5 DEF Valid, EffectiveFee
    <2>2. /\ flows' = [flows EXCEPT ![f] = Send(f, second, n, FALSE)] /\ credits' = credits /\ outcome' = outcome
      BY <1>5, <2>1 DEF Complete, NoCredit
    <2>3. PICK r : r = Send(f, second, n, FALSE)
      OBVIOUS
    <2>4. r.reply = NoReply /\ r.call = "transfer" /\ r.tx = second /\ r.queue = flows[f].queue
      BY <1>3, <2>3 DEF Send, FlowRecord
    <2>5. r.tx.memo = tx.memo
      BY <1>3, <2>4 DEF NextStep, TransferRecord
    <2>6. \A k : Holds(flows[f], k) => Holds(r, k)
      BY <2>4, <2>5 DEF Holds, OwnMemo
    <2> QED
      BY <1>4, <2>2, <2>3, <2>4, <2>6, FlowSettles
  <1>6. CASE tx.stage # "First"
    <2>1. Return(f, flows[f].fee, m, "Ok")
      BY <1>1, <1>6 DEF Complete
    <2>2. \A kind : BlocksOf(m, kind)' = BlocksOf(m, kind)
      BY DEF BlocksOf, ledger
    <2>3. /\ Settled(m)'
          /\ \A k \in DOMAIN requests : k # m => credits'[k] = credits[k]
      <3>1. CASE tx.operation = "CreditOnSuccess"
        <4>1. Credit(m, AmountMinusFee(tx))
          BY <1>1, <1>6, <3>1 DEF Complete
        <4>2. PICK amount \in Nat : amount = AmountMinusFee(tx)
          BY <1>3, TransferTypes
        <4>3. credits'[m] = << amount >> /\ \A k \in DOMAIN requests : k # m => credits'[k] = credits[k]
          BY <1>2, <4>1, <4>2, CreditedNow
        <4>4. {b.amount : b \in BlocksOf(m, "deposit")} = {amount}
          BY <1>1, <1>2, <3>1, <4>2 DEF Moved
        <4>5. {b.amount : b \in BlocksOf(m, "deposit")'} = {amount}
          BY <2>2, <4>4
        <4>6. {credits'[m][i] : i \in DOMAIN credits'[m]} = {amount}
          BY <4>3
        <4>7. Settled(m)'
          BY <1>2, <3>1, <4>5, <4>6 DEF Settled
        <4> QED
          BY <4>3, <4>7
      <3>2. CASE tx.operation # "CreditOnSuccess"
        <4>1. credits' = credits
          BY <1>6, <3>2 DEF Complete, NoCredit
        <4>2. tx.stage = "Second"
          BY <1>2, <1>3, <1>6, <3>2 DEF TransferRecord, Stage
        <4>3. BlocksOf(m, "main")' # {} /\ BlocksOf(m, "interim")' # {}
          BY <1>1, <2>2, <4>2 DEF Moved
        <4>4. Settled(m)'
          BY <1>2, <3>2, <4>1, <4>3 DEF Settled
        <4> QED
          BY <4>1, <4>4
      <3> QED
        BY <3>1, <3>2
    <2> QED
      BY <1>1, <1>3, <1>4, <2>1, <2>3, ReturnSettlesParts
  <1> QED
    BY <1>5, <1>6

LEMMA RejectSettlesParts ==
  ASSUME TerminalInv, KnownInv, SettledInv, Spread, UNCHANGED << ledger, clock, requests >>, NEW f \in Flow,
         OwnMemo(flows[f]), Reject(f, flows[f].tx), Waits(flows[f].tx)
  PROVE  SettledInv'
  <1> DEFINE tx == flows[f].tx
  <1>1. PICK m : m = tx.memo
    OBVIOUS
  <1>2. /\ m \in DOMAIN requests /\ credits[m] = << >> /\ Parts({tx}) /\ flows[f].fee \in Nat
        /\ tx.operation = requests[m].operation /\ tx \in TransferRecord
    BY <1>1, OwnRequestKnown, Typed
  <1>3. CASE tx.stage = "Second"
    <2>1. /\ recovery' = Pushed(recovery, tx) /\ credits' = credits
          /\ Return(f, flows[f].fee, m, "Recoverable")
      BY <1>1, <1>3 DEF Reject, NoCredit
    <2>2. \A k : Lists(recovery, k) \/ k = m => Lists(recovery', k)
      BY <1>1, <1>2, <2>1, ListParts, PushedKeepsParts
    <2> QED
      BY <1>1, <1>2, <2>1, <2>2, ReturnSettlesParts
  <1>4. CASE tx.stage # "Second"
    <2>1. recovery' = recovery /\ Return(f, flows[f].fee, m, "TransferFailed")
      BY <1>1, <1>4 DEF Reject
    <2>2. \A kind : BlocksOf(m, kind)' = {}
      BY <1>1, <1>4 DEF Waits, ToDo, BlocksOf, ledger
    <2>3. /\ Settled(m)'
          /\ \A k \in DOMAIN requests : k # m => credits'[k] = credits[k]
      <3>1. CASE tx.operation = "CreditOnError"
        <4>1. Credit(m, tx.amount)
          BY <1>1, <1>4, <3>1 DEF Reject
        <4>2. PICK amount \in Nat : amount = requests[m].amount /\ amount = tx.amount
          BY <1>1, <1>2, <1>4 DEF Parts, PartOf, TransferRecord
        <4>3. credits'[m] = << amount >> /\ \A k \in DOMAIN requests : k # m => credits'[k] = credits[k]
          BY <1>2, <4>1, <4>2, CreditedNow
        <4>4. Settled(m)'
          BY <1>2, <2>2, <3>1, <4>2, <4>3 DEF Settled
        <4> QED
          BY <4>3, <4>4
      <3>2. CASE tx.operation # "CreditOnError"
        <4>1. credits' = credits
          BY <1>4, <3>2 DEF Reject, NoCredit
        <4>2. requests[m].operation = "CreditOnSuccess"
          BY <1>2, <3>2 DEF TransferRecord, Operation
        <4>3. {b.amount : b \in BlocksOf(m, "deposit")'} = {} /\ {credits'[m][i] : i \in DOMAIN credits'[m]} = {}
          BY <1>2, <2>2, <4>1
        <4>4. Settled(m)'
          BY <4>2, <4>3 DEF Settled
        <4> QED
          BY <4>1, <4>4
      <3> QED
        BY <3>1, <3>2
    <2> QED
      BY <1>1, <1>2, <2>1, <2>3, ReturnSettlesParts
  <1> QED
    BY <1>3, <1>4

LEMMA RetrySettlesParts ==
  ASSUME TerminalInv, KnownInv, SettledInv, Spread, UNCHANGED << ledger, clock, requests >>, NEW f \in Flow,
         OwnMemo(flows[f]), NEW fee \in Nat, NEW tx, tx.memo = flows[f].tx.memo, Parts({tx}), NEW n,
         NEW list, Parts(list), \A k : Lists(recovery, k) => Lists(list, k), Retry(f, fee, tx, n, list)
  PROVE  SettledInv'
  <1>1. flows[f] \in FlowRecord /\ credits' = credits
    BY Typed DEF Retry, NoCredit
  <1>2. CASE n = 0
    <2>1. recovery' = Pushed(list, tx) /\ Return(f, fee, tx.memo, "Recoverable")
      BY <1>2 DEF Retry
    <2>2. \A k : Lists(recovery, k) \/ k = tx.memo => Lists(recovery', k)
      BY <2>1, PushedKeepsParts
    <2> QED
      BY <1>1, <2>1, <2>2, ReturnSettlesParts
  <1>3. CASE n # 0
    <2>1. PICK r : r = [Send(f, tx, n, TRUE) EXCEPT !.fee = fee, !.since = flows[f].since]
      OBVIOUS
    <2>2. recovery' = list /\ flows' = [flows EXCEPT ![f] = r] /\ outcome' = outcome
      BY <1>3, <2>1 DEF Retry
    <2>3. r.call = "transfer" /\ r.tx = tx /\ r.reply = NoReply /\ r.queue = flows[f].queue
      BY <1>1, <2>1 DEF Send, FlowRecord
    <2>4. \A k : Holds(flows[f], k) => Holds(r, k)
      BY <2>3 DEF Holds, OwnMemo
    <2> QED
      BY <1>1, <2>2, <2>3, <2>4, FlowSettles
  <1> QED
    BY <1>2, <1>3

LEMMA UpdateConfigSettlesParts ==
  ASSUME TerminalInv, KnownInv, SettledInv, Spread, UNCHANGED << ledger, clock, requests >>, NEW f \in Flow,
         OwnMemo(flows[f]), Waits(flows[f].tx), NEW fee \in Nat, NEW n, UpdateConfigAndRetry(f, fee, n)
  PROVE  SettledInv'
  <1>1. PICK list \in Rewritten(fee) : Retry(f, fee, WithFee(flows[f].tx, fee), n, list)
    BY DEF UpdateConfigAndRetry
  <1>2. flows[f].tx \in TransferRecord /\ clock \in Nat /\ flows[f].tx.memo \in DOMAIN requests
    BY OwnKnown
  <1>3. PICK tx : tx = WithFee(flows[f].tx, fee)
    OBVIOUS
  <1>4. tx \in TransferRecord /\ tx.memo = flows[f].tx.memo
    BY <1>2, <1>3 DEF WithFee, TransferRecord
  <1>5. Parts({tx})
    BY <1>2, <1>3, <1>4, WaitsStays DEF Parts, Waits
  <1>6. Parts(list) /\ \A k : Lists(recovery, k) => Lists(list, k)
    BY <1>1, RewrittenKeepsParts
  <1> QED
    BY <1>1, <1>3, <1>4, <1>5, <1>6, RetrySettlesParts

LEMMA ContinueSettlesParts ==
  ASSUME TerminalInv, KnownInv, SettledInv, FeesPaid, Spread, NEW f \in Flow, Continue(f)
  PROVE  SettledInv' \/ OnDepositBalance(f)
  <1>1. /\ flows[f].retries \in 0 .. NRetries /\ CleanFlow(flows[f]) /\ flows[f] \in FlowRecord
        /\ flows[f].fee \in Nat /\ clock \in Nat
    BY Typed
  <1>2. FlowKnows(flows[f])
    BY DEF KnownInv
  <1>3. flows[f].reply.kind \notin {"Duplicate", "MaybeFailed", "Unavailable"}
    BY <1>2 DEF FlowKnows
  <1>4. CASE OnSuccess(f)
    <2>1. /\ flows[f].call = "transfer" /\ Complete(f, flows[f].tx, flows[f].retries)
          /\ UNCHANGED << ledger, clock, requests >> /\ flows[f].reply.kind = "Ok"
      BY <1>3, <1>4 DEF OnSuccess, OnTransfer, Replied
    <2>2. flows[f].retries \in 1 .. NRetries /\ OwnMemo(flows[f])
      BY <1>1, <2>1, Constants DEF CleanFlow, OwnMemo
    <2>3. Moved(flows[f].tx)
      BY <2>1, <2>2, OwnKnown
    <2> QED
      BY <2>1, <2>2, <2>3, CompleteSettlesParts
  <1>5. CASE OnUnknown(f)
    BY <1>3, <1>5 DEF OnUnknown
  <1>6. CASE OnWrongFee(f)
    <2>1. flows[f].call = "transfer" /\ UNCHANGED << ledger, clock, requests >> /\ flows[f].reply.kind = "BadFee"
      BY <1>6 DEF OnWrongFee, OnTransfer, Replied
    <2>2. OwnMemo(flows[f])
      BY <2>1 DEF OwnMemo
    <2>3. Waits(flows[f].tx)
      BY <2>1, <2>2, OwnKnown
    <2>4. PICK expected \in Nat : expected = flows[f].reply.value
      BY <1>1 DEF FlowRecord, ReplyRecord
    <2>5. CASE expected \in {0, flows[f].fee}
      <3>1. /\ flows' = [flows EXCEPT ![f].call = "minting_account", ![f].reply = NoReply]
            /\ recovery' = recovery /\ credits' = credits /\ outcome' = outcome
        BY <1>6, <2>4, <2>5 DEF OnWrongFee
      <3>2. PICK r : r = [flows[f] EXCEPT !.call = "minting_account", !.reply = NoReply]
        OBVIOUS
      <3>3. flows' = [flows EXCEPT ![f] = r]
        BY <3>1, <3>2
      <3>4. r.call = "minting_account" /\ r.reply = NoReply /\ r.tx = flows[f].tx /\ r.queue = flows[f].queue
        BY <1>1, <3>2 DEF FlowRecord
      <3>5. \A k : Holds(flows[f], k) => Holds(r, k)
        BY <3>4 DEF Holds, OwnMemo
      <3> QED
        BY <2>1, <3>1, <3>3, <3>4, <3>5, FlowSettles
    <2>6. CASE expected \notin {0, flows[f].fee}
      <3>1. PICK n : UpdateConfigAndRetry(f, expected, n)
        BY <1>6, <2>4, <2>6 DEF OnWrongFee
      <3> QED
        BY <2>1, <2>2, <2>3, <3>1, UpdateConfigSettlesParts
    <2> QED
      BY <2>5, <2>6
  <1>7. CASE OnRejected(f)
    <2>1. /\ flows[f].call = "transfer" /\ UNCHANGED << ledger, clock, requests >> /\ Reject(f, flows[f].tx)
          /\ flows[f].reply.kind # "Ok" /\ OwnMemo(flows[f])
      BY <1>7 DEF OnRejected, OnTransfer, Replied, OwnMemo
    <2> QED
      BY <2>1, OwnKnown, RejectSettlesParts
  <1>8. CASE OnMintingAccount(f)
    <2>1. /\ flows[f].call = "minting_account" /\ UNCHANGED << ledger, clock, requests >> /\ OwnMemo(flows[f])
      BY <1>8 DEF OnMintingAccount, Replied, OwnMemo
    <2>2. PICK n : UpdateConfigAndRetry(f, flows[f].fee, n)
      BY <1>8 DEF OnMintingAccount
    <2> QED
      BY <1>1, <2>1, <2>2, OwnKnown, UpdateConfigSettlesParts
  <1>9. CASE OnInterimBalance(f)
    <2>1. /\ flows[f].call = "interim_balance" /\ UNCHANGED << ledger, clock, requests >> /\ OwnMemo(flows[f])
          /\ RecoverOldTx(f, flows[f].tx, flows[f].reply.value) /\ flows[f].reply.kind = "Value"
      BY <1>9 DEF OnInterimBalance, Replied, OwnMemo
    <2>2. Waits(flows[f].tx) /\ flows[f].tx \in TransferRecord
      BY <2>1, OwnKnown
    <2>3. flows[f].reply.value = 0 <=> flows[f].tx.stage = "First"
      BY <1>2, <2>1 DEF FlowKnows
    <2>4. CASE Reject(f, flows[f].tx)
      BY <2>1, <2>2, <2>4, RejectSettlesParts
    <2>5. CASE /\ recovery' = recovery /\ credits' = credits /\ outcome' = outcome
               /\ flows' = [flows EXCEPT ![f] = Send(f, Renew(flows[f].tx, clock), NRetries, TRUE)]
      <3>1. PICK r : r = Send(f, Renew(flows[f].tx, clock), NRetries, TRUE)
        OBVIOUS
      <3>2. /\ r.call = "transfer" /\ r.tx = Renew(flows[f].tx, clock) /\ r.reply = NoReply
            /\ r.queue = flows[f].queue
        BY <1>1, <3>1 DEF Send, FlowRecord
      <3>3. r.tx.memo = flows[f].tx.memo
        BY <2>2, <3>2 DEF Renew, TransferRecord
      <3>4. \A k : Holds(flows[f], k) => Holds(r, k)
        BY <3>2, <3>3 DEF Holds, OwnMemo
      <3> QED
        BY <2>1, <2>5, <3>1, <3>2, <3>4, FlowSettles
    <2> QED
      BY <2>1, <2>3, <2>4, <2>5 DEF RecoverOldTx
  <1>10. CASE OnQueryFailed(f)
    BY <1>3, <1>10 DEF OnQueryFailed
  <1> QED
    BY <1>4, <1>5, <1>6, <1>7, <1>8, <1>9, <1>10 DEF Continue

LEMMA SetFeeSettlesParts ==
  ASSUME TerminalInv, KnownInv, SettledInv, Spread, NEW fee \in AdminFees, SetFee(fee)
  PROVE  SettledInv'
  <1>1. fee \in Nat /\ recovery' \in Rewritten(fee) /\ UNCHANGED << flows, blocks, clock, requests, credits, outcome >>
    BY Constants DEF SetFee, ledger, history
  <1>2. \A k : Lists(recovery, k) => Lists(recovery', k)
    BY <1>1, RewrittenKeepsParts
  <1>3. ASSUME NEW k \in DOMAIN requests PROVE Live(k)' \/ Done(k)'
    <2>1. CASE Live(k)
      BY <1>1, <1>2, <2>1, LiveIs
    <2>2. CASE ~ Live(k)
      BY <1>1, <2>2, DoneStays DEF SettledInv
    <2> QED
      BY <2>1, <2>2
  <1> QED
    BY <1>1, <1>3 DEF SettledInv

LEMMA SettledInvNextAtAnyFee ==
  ASSUME FeesPaid, Spread, TerminalInv, KnownInv, SettledInv, [Next]_vars
  PROVE  SettledInv'
  <1>1. CASE \E f \in Flow, amount \in Amounts : Deposit(f, amount) \/ Withdraw(f, amount)
    BY <1>1, DepositSettles
  <1>2. CASE \E f \in Flow : DepositAll(f)
    BY <1>2, DepositAllSettles
  <1>3. CASE \E f \in Flow : RecoverAll(f)
    <2>1. \A t \in recovery :
            t.memo \in DOMAIN requests /\ TooOld(t) =>
              requests[t.memo].operation = "CreditOnSuccess" /\ BlocksOf(t.memo, "deposit") = {}
      <3>1. \A t \in recovery : TooOld(t) => requests[t.memo].stage = "Single"
        BY ListParts DEF Parts, PartOf, TooOld
      <3>2. \A m \in DOMAIN requests : requests[m].stage = "Single" => requests[m].operation = "CreditOnSuccess"
        BY RequestMade DEF KnownInv
      <3>3. \A t \in recovery : TooOld(t) => BlocksOf(t.memo, "deposit") = {}
        BY DEF KnownInv, Waits, ToDo, TooOld, BlocksOf
      <3> QED
        BY <3>1, <3>2, <3>3
    <2>2. OldAreDeposits(recovery)
      BY <2>1, ListParts DEF Parts, OldAreDeposits
    <2> QED
      BY <1>3, <2>2, RecoverAllSettles
  <1>4. CASE \E f \in Flow : Continue(f)
    BY <1>4, ContinueSettlesParts, DepositAllSettles
  <1>5. CASE \E f \in Flow : LedgerStep(f)
    BY <1>5, LedgerStepSettles
  <1>6. CASE \E fee \in AdminFees : SetFee(fee)
    BY <1>6, SetFeeSettlesParts
  <1>7. CASE LedgerFeeChanges \/ Tick \/ UNCHANGED vars
    BY <1>7, EnvironmentSettles
  <1> QED
    BY <1>1, <1>2, <1>3, <1>4, <1>5, <1>6, <1>7 DEF Next

(***************************************************************************)
(* Every transfer that has ended is settled as the ledger says, and every  *)
(* one that its caller was told is recoverable is under way or in the      *)
(* recovery list, while the ledger's fee and the configured one change at  *)
(* any time: with no call lost, amounts that cover the fees of both steps, *)
(* and that the ids of the steps tell apart whatever fee was paid.         *)
(***************************************************************************)
THEOREM TransfersAreSettledOrKeptAtAnyFee ==
  ASSUME Lossless, FeesPaid, DistinctAmounts, Spread
  PROVE  Spec => []SettledOrKept
  <1>1. TerminalInv /\ KnownInv /\ SettledInv /\ [Next]_vars => SettledInv'
    BY SettledInvNextAtAnyFee
  <1>2. Init => SettledInv
    BY SettledInvInit
  <1>3. SettledInv => SettledOrKept
    BY DEF SettledInv, SettledOrKept, SettledRight, RecoverableIsKept, Done
  <1> QED
    BY <1>1, <1>2, <1>3, KnownInvariant, PTL DEF Spec

-----------------------------------------------------------------------------
(* What the canister owes, whatever the fees *)

\* What was moved for a deposit is a number of tokens, that of its one block.
LEMMA DepositedIs ==
  ASSUME DueInv, NEW m, NEW moved, moved = BlocksOf(m, "deposit")
  PROVE  /\ Deposited(moved) \in Nat
         /\ moved = {} => Deposited(moved) = 0
         /\ \A n : {b.amount : b \in moved} = {n} => Deposited(moved) = n
  <1>1. \A b \in moved : b.amount \in Nat
    BY DEF DueInv, BlocksOf
  <1>2. CASE moved = {}
    <2>1. Deposited(moved) = 0
      BY <1>2 DEF Deposited
    <2> QED
      BY <1>2, <2>1
  <1>3. CASE moved # {}
    <2>1. PICK c : c = CHOOSE b \in moved : TRUE
      OBVIOUS
    <2>2. c \in moved
      BY <1>3, <2>1
    <2>3. Deposited(moved) = c.amount
      BY <1>3, <2>1 DEF Deposited
    <2> QED
      BY <1>1, <1>3, <2>2, <2>3
  <1> QED
    BY <1>2, <1>3

LEMMA DueTyped ==
  ASSUME TerminalInv, DueInv
  PROVE  \A m \in DOMAIN requests : Due(m) \in Nat
  <1>1. \A m \in DOMAIN requests : Deposited(BlocksOf(m, "deposit")) \in Nat /\ requests[m].amount \in Nat
    BY DepositedIs, LedgerTyped DEF TransferRecord
  <1> QED
    BY <1>1 DEF Due

\* What is due for a request that nothing happens to
LEMMA DueStays ==
  ASSUME NEW m, \A kind : BlocksOf(m, kind)' = BlocksOf(m, kind),
         requests'[m] = requests[m], credits'[m] = credits[m]
  PROVE  Due(m)' = Due(m)
  BY DEF Due

\* A step that changes what is due for one request at most, and the main
\* account and the balance by as much
LEMMA DueKept ==
  ASSUME TerminalInv, DueInv, UNCHANGED requests, NEW m \in DOMAIN requests, Due(m)' \in Nat,
         \A k \in DOMAIN requests : k # m => Due(k)' = Due(k), \A b \in blocks' : b.amount \in Nat,
         balance' \in Nat, BalanceOf(Own("main"))' \in Nat,
         BalanceOf(Own("main"))' + balance + Due(m) = BalanceOf(Own("main")) + balance' + Due(m)'
  PROVE  DueInv'
  <1>1. PICK l \in Nat : l = Len(requests) /\ DOMAIN requests = 1 .. l
    BY DEF TerminalInv, HistoryInv
  <1>2. PICK old, new : old = AllDue /\ new = AllDue'
    OBVIOUS
  <1>3. \A k \in 1 .. l : old[k] = Due(k) /\ new[k] = Due(k)'
    BY <1>1, <1>2 DEF AllDue
  <1>4. old \in [1 .. l -> Nat] /\ new \in [1 .. l -> Nat]
    <2>1. \A k \in 1 .. l : Due(k) \in Nat /\ Due(k)' \in Nat
      BY <1>1, DueTyped
    <2> QED
      BY <1>1, <1>2, <2>1 DEF AllDue
  <1>5. PICK sums : Adds(sums, old, l) /\ BalanceOf(Own("main")) = balance + sums[l]
    BY <1>1, <1>2 DEF DueInv
  <1>6. \A k \in 1 .. l : k # m => old[k] = new[k]
    BY <1>1, <1>3
  <1>7. PICK then : Adds(then, new, l) /\ then[l] = sums[l] - old[m] + new[m]
    <2>1. m \in 1 .. l
      BY <1>1
    <2>2. \E then : Adds(then, new, l) /\ then[l] = sums[l] - old[m] + new[m]
      BY <1>4, <1>5, <1>6, <2>1, AddsChanged
    <2> QED
      BY <2>2
  <1>8. PICK total \in Nat, was \in Nat, is \in Nat :
          total = sums[l] /\ was = Due(m) /\ is = Due(m)' /\ old[m] = was /\ new[m] = is
    BY <1>1, <1>3, <1>5, DueTyped DEF Adds
  <1>9. balance \in Nat /\ BalanceOf(Own("main")) \in Nat
    BY LedgerTyped DEF TerminalInv, CanisterInv
  <1>10. BalanceOf(Own("main"))' = balance' + (total - was + is)
    <2>1. PICK main \in Nat, kept \in Nat : main = BalanceOf(Own("main"))' /\ kept = balance'
      OBVIOUS
    <2>2. PICK before \in Nat, held \in Nat :
            before = BalanceOf(Own("main")) /\ held = balance /\ before = held + total
      BY <1>5, <1>8, <1>9
    <2>3. main + held + was = before + kept + is
      BY <1>8, <2>1, <2>2
    <2>4. main = kept + (total - was + is)
      BY <2>2, <2>3
    <2> QED
      BY <2>1, <2>4
  <1>11. Adds(then, AllDue', Len(requests')) /\ BalanceOf(Own("main"))' = balance' + then[Len(requests')]
    BY <1>1, <1>2, <1>7, <1>8, <1>10
  <1> QED
    BY <1>11 DEF DueInv

\* A step that changes none of them
LEMMA DueSame ==
  ASSUME DueInv, UNCHANGED << requests, balance >>, \A k \in DOMAIN requests : Due(k)' = Due(k),
         \A b \in blocks' : b.amount \in Nat, BalanceOf(Own("main"))' = BalanceOf(Own("main"))
  PROVE  DueInv'
  <1>1. AllDue' = AllDue
    BY DEF AllDue
  <1> QED
    BY <1>1 DEF DueInv

\* A step credits nothing, or what is due for a request.
PaysDue == NoCredit \/ \E m \in DOMAIN requests : credits[m] = << >> /\ Credit(m, Due(m))

LEMMA PaysDueKept ==
  ASSUME TerminalInv, DueInv, UNCHANGED << funds, blocks, requests >>, PaysDue
  PROVE  DueInv'
  <1>1. \A k, kind : BlocksOf(k, kind)' = BlocksOf(k, kind)
    BY DEF BlocksOf
  <1>2. \A k : credits'[k] = credits[k] => Due(k)' = Due(k)
    BY <1>1, DueStays
  <1>3. BalanceOf(Own("main"))' = BalanceOf(Own("main")) /\ BalanceOf(Own("main")) \in Nat
    BY LedgerTyped DEF BalanceOf, Own
  <1>4. \A b \in blocks' : b.amount \in Nat
    BY DEF DueInv
  <1>5. CASE NoCredit
    <2>1. \A k \in DOMAIN requests : Due(k)' = Due(k)
      BY <1>2, <1>5 DEF NoCredit
    <2> QED
      BY <1>3, <1>4, <1>5, <2>1, DueSame DEF NoCredit
  <1>6. CASE ~ NoCredit
    <2>1. PICK m \in DOMAIN requests : credits[m] = << >> /\ Credit(m, Due(m))
      BY <1>6 DEF PaysDue
    <2>2. PICK amount \in Nat : amount = Due(m)
      BY DueTyped
    <2>3. balance' = balance + amount /\ balance \in Nat
      BY <2>1, <2>2 DEF Credit, TerminalInv, CanisterInv
    <2>4. credits'[m] = << amount >> /\ \A k \in DOMAIN requests : k # m => credits'[k] = credits[k]
      BY <2>1, <2>2, CreditedNow
    <2>5. Due(m)' = 0
      BY <2>4 DEF Due
    <2>6. \A k \in DOMAIN requests : k # m => Due(k)' = Due(k)
      BY <1>2, <2>4
    <2>7. balance' \in Nat /\ BalanceOf(Own("main"))' \in Nat
      BY <1>3, <2>3
    <2>8. BalanceOf(Own("main"))' + balance + Due(m) = BalanceOf(Own("main")) + balance' + Due(m)'
      BY <1>3, <2>2, <2>3, <2>5
    <2> QED
      BY <1>4, <2>5, <2>6, <2>7, <2>8, DueKept
  <1> QED
    BY <1>5, <1>6

\* A transfer that is done is credited with what arrived, and one that is
\* rejected with what was not taken.
LEMMA CompletePaysDue ==
  ASSUME TerminalInv, KnownInv, DueInv, NEW f \in Flow, OwnMemo(flows[f]), NEW n,
         Complete(f, flows[f].tx, n), Moved(flows[f].tx)
  PROVE  PaysDue
  <1> DEFINE tx == flows[f].tx
  <1>1. PICK m : m = tx.memo
    OBVIOUS
  <1>2. /\ m \in DOMAIN requests /\ credits[m] = << >> /\ tx.operation = requests[m].operation
        /\ tx.stage = "Single" <=> requests[m].operation = "CreditOnSuccess"
    BY <1>1, OwnRequestKnown
  <1>3. CASE tx.stage # "First" /\ tx.operation = "CreditOnSuccess"
    <2>1. Credit(m, AmountMinusFee(tx))
      BY <1>1, <1>3 DEF Complete
    <2>2. {b.amount : b \in BlocksOf(m, "deposit")} = {AmountMinusFee(tx)}
      BY <1>1, <1>2, <1>3 DEF Moved
    <2>3. Due(m) = AmountMinusFee(tx)
      BY <1>2, <1>3, <2>2, DepositedIs DEF Due
    <2> QED
      BY <1>2, <2>1, <2>3 DEF PaysDue
  <1>4. CASE ~ (tx.stage # "First" /\ tx.operation = "CreditOnSuccess")
    BY <1>4 DEF Complete, PaysDue
  <1> QED
    BY <1>3, <1>4

LEMMA RejectPaysDue ==
  ASSUME TerminalInv, KnownInv, NEW f \in Flow, OwnMemo(flows[f]), Reject(f, flows[f].tx), Waits(flows[f].tx)
  PROVE  PaysDue
  <1> DEFINE tx == flows[f].tx
  <1>1. PICK m : m = tx.memo
    OBVIOUS
  <1>2. m \in DOMAIN requests /\ credits[m] = << >> /\ tx.operation = requests[m].operation
    BY <1>1, OwnRequestKnown
  <1>3. CASE tx.stage # "Second" /\ tx.operation = "CreditOnError"
    <2>1. Credit(m, tx.amount)
      BY <1>1, <1>3 DEF Reject
    <2>2. tx.amount = requests[m].amount /\ BlocksOf(m, "main") = {}
      BY <1>1, <1>3 DEF Waits, PartOf, ToDo, BlocksOf
    <2>3. Due(m) = tx.amount
      BY <1>2, <1>3, <2>2 DEF Due
    <2> QED
      BY <1>2, <2>1, <2>3 DEF PaysDue
  <1>4. CASE ~ (tx.stage # "Second" /\ tx.operation = "CreditOnError")
    BY <1>4 DEF Reject, PaysDue
  <1> QED
    BY <1>3, <1>4

LEMMA ContinuePaysDue ==
  ASSUME TerminalInv, KnownInv, DueInv, NEW f \in Flow, Continue(f)
  PROVE  (PaysDue /\ UNCHANGED << funds, blocks, requests >>) \/ OnDepositBalance(f)
  <1>1. FlowKnows(flows[f])
    BY DEF KnownInv
  <1>2. flows[f].reply.kind \notin {"Duplicate", "MaybeFailed", "Unavailable"}
    BY <1>1 DEF FlowKnows
  <1>3. CASE OnSuccess(f)
    <2>1. /\ flows[f].call = "transfer" /\ Complete(f, flows[f].tx, flows[f].retries)
          /\ UNCHANGED << ledger, requests >> /\ flows[f].reply.kind = "Ok" /\ OwnMemo(flows[f])
      BY <1>2, <1>3 DEF OnSuccess, OnTransfer, Replied, OwnMemo
    <2>2. Moved(flows[f].tx)
      BY <2>1, OwnKnown
    <2> QED
      BY <2>1, <2>2, CompletePaysDue DEF ledger
  <1>4. CASE OnUnknown(f)
    BY <1>2, <1>4 DEF OnUnknown
  <1>5. CASE OnWrongFee(f)
    <2>1. NoCredit
      BY <1>5 DEF OnWrongFee, UpdateConfigAndRetry, Retry, NoCredit
    <2> QED
      BY <1>5, <2>1 DEF OnWrongFee, OnTransfer, ledger, PaysDue
  <1>6. CASE OnRejected(f)
    <2>1. /\ flows[f].call = "transfer" /\ UNCHANGED << ledger, requests >> /\ Reject(f, flows[f].tx)
          /\ flows[f].reply.kind # "Ok" /\ OwnMemo(flows[f])
      BY <1>6 DEF OnRejected, OnTransfer, Replied, OwnMemo
    <2> QED
      BY <2>1, OwnKnown, RejectPaysDue DEF ledger
  <1>7. CASE OnMintingAccount(f)
    <2>1. NoCredit
      BY <1>7 DEF OnMintingAccount, UpdateConfigAndRetry, Retry
    <2> QED
      BY <1>7, <2>1 DEF OnMintingAccount, ledger, PaysDue
  <1>8. CASE OnInterimBalance(f)
    <2>1. /\ flows[f].call = "interim_balance" /\ UNCHANGED << ledger, requests >> /\ OwnMemo(flows[f])
          /\ RecoverOldTx(f, flows[f].tx, flows[f].reply.value) /\ flows[f].reply.kind = "Value"
      BY <1>8 DEF OnInterimBalance, Replied, OwnMemo
    <2>2. Waits(flows[f].tx)
      BY <2>1, OwnKnown
    <2>3. flows[f].reply.value = 0 <=> flows[f].tx.stage = "First"
      BY <1>1, <2>1 DEF FlowKnows
    <2>4. Reject(f, flows[f].tx) \/ NoCredit
      BY <2>1, <2>3 DEF RecoverOldTx, NoCredit
    <2> QED
      BY <2>1, <2>2, <2>4, RejectPaysDue DEF ledger, PaysDue
  <1>9. CASE OnQueryFailed(f)
    BY <1>2, <1>9 DEF OnQueryFailed
  <1> QED
    BY <1>3, <1>4, <1>5, <1>6, <1>7, <1>8, <1>9 DEF Continue

\* What a withdrawal takes from the balance is due until it is executed.
LEMMA BeginDue ==
  ASSUME TerminalInv, KnownInv, DueInv, NEW f \in Flow, NEW op \in Operation, NEW amount \in Nat, NEW fee \in Nat,
         NEW tx, tx = NewTransfer(op, amount, fee, clock, Len(requests) + 1), Begin(f, tx),
         \/ op = "CreditOnSuccess" /\ balance' = balance
         \/ op = "CreditOnError" /\ amount <= balance /\ balance' = balance - amount
  PROVE  DueInv'
  <1>1. PICK l \in Nat : l = Len(requests) /\ DOMAIN requests = 1 .. l /\ requests \in Seq(TransferRecord)
    BY DEF TerminalInv, HistoryInv
  <1>2. tx.operation = op /\ tx.amount = amount
    BY DEF NewTransfer
  <1>3. tx \in TransferRecord
    <2>1. clock \in Nat
      BY LedgerTyped
    <2>2. PICK next \in Nat : next = l + 1
      BY <1>1
    <2>3. NewTransfer(op, amount, fee, clock, next) \in TransferRecord
      BY <2>1, NewTransferType
    <2> QED
      BY <1>1, <2>2, <2>3
  <1>4. /\ requests' = Append(requests, tx) /\ credits' = Append(credits, << >>)
        /\ funds' = funds /\ blocks' = blocks
    BY DEF Begin, ledger
  <1>5. /\ DOMAIN requests' = 1 .. (l + 1) /\ requests'[l + 1] = tx /\ Len(requests') = l + 1
        /\ \A m \in DOMAIN requests : requests'[m] = requests[m] /\ m # l + 1
    BY <1>1, <1>3, <1>4
  <1>6. credits'[l + 1] = << >> /\ \A m \in DOMAIN requests : credits'[m] = credits[m]
    <2>1. credits \in Seq(Seq(Nat)) /\ Len(credits) = l
      BY <1>1 DEF TerminalInv, HistoryInv
    <2> QED
      BY <1>1, <1>4, <2>1
  <1>7. \A m, kind : BlocksOf(m, kind)' = BlocksOf(m, kind)
    BY <1>4 DEF BlocksOf
  <1>8. \A kind : BlocksOf(l + 1, kind)' = {}
    <2>1. \A b \in blocks : b.memo # l + 1
      BY <1>5 DEF KnownInv, StepBlocksInv
    <2> QED
      BY <1>7, <2>1 DEF BlocksOf
  <1>9. \A k \in 1 .. l : Due(k) \in Nat /\ Due(k)' = Due(k)
    BY <1>1, <1>5, <1>6, <1>7, DueTyped, DueStays
  <1>10. PICK due \in Nat : due = Due(l + 1)' /\ balance' + due = balance /\ balance' \in Nat
    <2>1. Deposited({}) = 0
      BY DEF Deposited
    <2>2. Due(l + 1)' = IF op = "CreditOnSuccess" THEN 0 ELSE amount
      BY <1>2, <1>5, <1>6, <1>8, <2>1 DEF Due
    <2>3. balance \in Nat
      BY DEF TerminalInv, CanisterInv
    <2> QED
      BY <2>2, <2>3
  <1>11. PICK old, new : old = AllDue /\ new = AllDue'
    OBVIOUS
  <1>12. old \in [1 .. l -> Nat] /\ \A k \in 1 .. l : old[k] = Due(k)
    BY <1>1, <1>9, <1>11 DEF AllDue
  <1>13. /\ \A k \in 1 .. l : new[k] = Due(k)' /\ k \in 1 .. (l + 1)
         /\ new[l + 1] = due
    BY <1>5, <1>10, <1>11 DEF AllDue
  <1>14. new \in [1 .. (l + 1) -> Nat]
    <2>1. \A k \in 1 .. (l + 1) : k \in 1 .. l \/ k = l + 1
      OBVIOUS
    <2>2. \A k \in 1 .. (l + 1) : Due(k)' \in Nat
      BY <1>9, <1>10, <2>1
    <2> QED
      BY <1>5, <1>11, <2>2 DEF AllDue
  <1>15. PICK sums : Adds(sums, old, l) /\ BalanceOf(Own("main")) = balance + sums[l]
    BY <1>1, <1>11 DEF DueInv
  <1>16. \A k \in 1 .. l : old[k] = new[k]
    BY <1>9, <1>12, <1>13
  <1>17. PICK then : Adds(then, new, l + 1) /\ then[l + 1] = sums[l] + new[l + 1]
    <2>1. \E then : Adds(then, new, l + 1) /\ then[l + 1] = sums[l] + new[l + 1]
      BY <1>12, <1>14, <1>15, <1>16, AddsOneMore
    <2> QED
      BY <2>1
  <1>18. BalanceOf(Own("main"))' = BalanceOf(Own("main"))
    BY <1>4 DEF BalanceOf, Own
  <1>19. BalanceOf(Own("main"))' = balance' + then[l + 1]
    <2>1. PICK total \in Nat : total = sums[l]
      BY <1>15 DEF Adds
    <2>2. balance + total = balance' + (total + due)
      BY <1>10
    <2> QED
      BY <1>13, <1>15, <1>17, <1>18, <2>1, <2>2
  <1>20. \A b \in blocks' : b.amount \in Nat
    BY <1>4 DEF DueInv
  <1> QED
    BY <1>5, <1>11, <1>17, <1>19, <1>20 DEF DueInv

LEMMA DepositDue ==
  ASSUME TerminalInv, KnownInv, DueInv, NEW f \in Flow, NEW amount \in Amounts,
         Deposit(f, amount) \/ Withdraw(f, amount)
  PROVE  DueInv'
  <1>1. amount \in Nat /\ saved_fee \in Nat
    BY Constants, ListTyped
  <1>2. PICK op \in Operation :
          /\ Begin(f, New(op, amount))
          /\ \/ op = "CreditOnSuccess" /\ balance' = balance
             \/ op = "CreditOnError" /\ amount <= balance /\ balance' = balance - amount
    BY DEF Deposit, Withdraw, Operation
  <1>3. PICK tx : tx = New(op, amount)
    OBVIOUS
  <1>4. tx = NewTransfer(op, amount, saved_fee, clock, Len(requests) + 1)
    BY <1>3 DEF New
  <1> QED
    BY <1>1, <1>2, <1>3, <1>4, BeginDue

LEMMA DepositBalanceDue ==
  ASSUME TerminalInv, KnownInv, DueInv, NEW f \in Flow, OnDepositBalance(f)
  PROVE  DueInv'
  <1>1. PICK op, amount, fee : op = "CreditOnSuccess" /\ amount = flows[f].reply.value /\ fee = flows[f].fee
    OBVIOUS
  <1>2. op \in Operation /\ amount \in Nat /\ fee \in Nat
    <2>1. flows[f] \in FlowRecord
      BY Typed
    <2> QED
      BY <1>1, <2>1 DEF Operation, FlowRecord, ReplyRecord
  <1>3. PICK tx : tx = NewTransfer(op, amount, fee, clock, Len(requests) + 1)
    OBVIOUS
  <1>4. \/ Begin(f, tx) /\ balance' = balance
        \/ UNCHANGED << funds, blocks, requests, credits, balance >>
    BY <1>1, <1>3 DEF OnDepositBalance, history, ledger
  <1>5. CASE Begin(f, tx) /\ balance' = balance
    BY <1>1, <1>2, <1>3, <1>5, BeginDue
  <1>6. CASE UNCHANGED << funds, blocks, requests, credits, balance >>
    BY <1>6, PaysDueKept DEF PaysDue, NoCredit
  <1> QED
    BY <1>4, <1>5, <1>6

\* The ledger executes a step that waits for it: what is due for its request
\* changes by what the main account pays or receives.
LEMMA ExecuteDue ==
  ASSUME TerminalInv, KnownInv, DueInv, FeesPaid, NEW tx \in TransferRecord, tx.memo \in DOMAIN requests,
         Waits(tx), credits[tx.memo] = << >>, Answer(tx).kind = "Ok", Execute(tx),
         UNCHANGED << ledger_fee, requests, credits, balance >>
  PROVE  DueInv'
  <1>1. PICK m \in DOMAIN requests : m = tx.memo
    OBVIOUS
  <1>2. PartOf(tx) /\ ToDo(tx) /\ requests[m] \in TransferRecord
    BY LedgerTyped DEF Waits
  <1>3. PICK stage, from, to, main : stage = tx.stage /\ from = From(tx) /\ to = To(tx) /\ main = Own("main")
    OBVIOUS
  <1>4. /\ tx.interim.kind = "interim"
        /\ stage = "Single" => from.kind = "deposit" /\ to = main
        /\ stage = "First" => from = main /\ to = tx.interim
        /\ stage = "Second" => from = tx.interim /\ to.kind = "user"
        /\ stage \in {"Single", "First", "Second"}
    BY <1>1, <1>2, <1>3, StepAccounts
  <1>5. main.kind = "main" /\ main # tx.interim
    BY <1>3, <1>4 DEF Own
  <1>6. tx.fee = ledger_fee /\ BalanceOf(from) >= AmountMinusFee(tx) + tx.fee
    BY <1>2, <1>3, <1>4, AnswersKnown
  <1>7. PICK net \in Nat, fee \in Nat, before \in Nat, block \in {Block(tx)} :
          net = AmountMinusFee(tx) /\ fee = tx.fee /\ before = BalanceOf(main)
    BY LedgerTyped, TransferTypes DEF TransferRecord
  <1>8. block.memo = m /\ block.from = from /\ block.amount = net /\ blocks' = blocks \cup {block}
    BY <1>1, <1>3, <1>7 DEF Block, Execute
  <1>9. \A b \in blocks' : b.amount \in Nat
    BY <1>8 DEF DueInv
  <1>10. \A k, kind : BlocksOf(k, kind)' =
           IF k = m /\ kind = from.kind THEN BlocksOf(k, kind) \cup {block} ELSE BlocksOf(k, kind)
    BY <1>8 DEF BlocksOf
  <1>11. \A k \in DOMAIN requests : k # m => Due(k)' = Due(k)
    BY <1>10, DueStays
  <1>12. BalanceOf(Own("main"))' = before + (IF main = to THEN net ELSE 0) - (IF main = from THEN net + fee ELSE 0)
    <2>1. BalanceOf(main)' = before + (IF main = to THEN net ELSE 0) - (IF main = from THEN net + fee ELSE 0)
      BY <1>3, <1>6, <1>7, BalanceAfter
    <2>2. BalanceOf(Own("main"))' = BalanceOf(main)'
      BY <1>3 DEF Own
    <2> QED
      BY <2>1, <2>2
  <1>13. balance \in Nat /\ balance' = balance /\ BalanceOf(Own("main")) = before
    BY <1>3, <1>7 DEF TerminalInv, CanisterInv
  <1>14. /\ tx.operation = requests[m].operation /\ tx.interim = requests[m].interim
         /\ stage # "Second" => stage = requests[m].stage /\ tx.amount = requests[m].amount
         /\ stage = "Second" => requests[m].stage = "First"
         /\ requests[m].stage = "Single" <=> requests[m].operation = "CreditOnSuccess"
    <2>1. requests[m].stage = IF requests[m].operation = "CreditOnSuccess" THEN "Single" ELSE "First"
      BY RequestMade DEF KnownInv
    <2> QED
      BY <1>1, <1>2, <1>3, <2>1 DEF PartOf
  <1>15. stage # "Second" => BlocksOf(m, "main") = {} /\ BlocksOf(m, "deposit") = {}
    BY <1>1, <1>2, <1>3 DEF ToDo, BlocksOf
  <1>16. credits[m] = << >> /\ credits'[m] = << >>
    BY <1>1
  <1>17. CASE stage = "Single"
    <2>1. BalanceOf(Own("main"))' = before + net
      BY <1>4, <1>5, <1>12, <1>17
    <2>2. requests[m].operation = "CreditOnSuccess"
      BY <1>14, <1>17
    <2>3. BlocksOf(m, "deposit")' = {block}
      BY <1>4, <1>10, <1>15, <1>17
    <2>4. Deposited({}) = 0 /\ Deposited({block}) = net
      BY <1>8 DEF Deposited
    <2>5. Due(m) = 0 /\ Due(m)' = net
      BY <1>15, <1>16, <1>17, <2>2, <2>3, <2>4 DEF Due
    <2>6. BalanceOf(Own("main"))' + balance + Due(m) = BalanceOf(Own("main")) + balance' + Due(m)'
      BY <1>13, <2>1, <2>5
    <2>7. BalanceOf(Own("main"))' \in Nat /\ balance' \in Nat /\ Due(m)' \in Nat
      BY <1>13, <2>1, <2>5
    <2> QED
      BY <1>9, <1>11, <2>6, <2>7, DueKept
  <1>18. CASE stage = "First"
    <2>1. BalanceOf(Own("main"))' = before - (net + fee) /\ before >= net + fee
      BY <1>4, <1>5, <1>6, <1>7, <1>12, <1>18
    <2>2. requests[m].operation # "CreditOnSuccess" /\ requests[m].operation = "CreditOnError"
      BY <1>2, <1>14, <1>18 DEF TransferRecord, Operation
    <2>3. PICK amount \in Nat : amount = tx.amount /\ amount = requests[m].amount /\ amount \in Amounts
      BY <1>14, <1>18, <2>2, Constants DEF KnownInv
    <2>4. amount > 2 * fee
      BY <1>6, <1>7, <2>3 DEF KnownInv, FeesPaid
    <2>5. net + fee = amount
      <3>1. amount > fee
        BY <2>4
      <3> QED
        BY <1>7, <2>3, <3>1 DEF AmountMinusFee
    <2>6. BlocksOf(m, "main")' # {}
      BY <1>4, <1>5, <1>10, <1>18
    <2>7. Due(m) = amount /\ Due(m)' = 0
      BY <1>15, <1>16, <1>18, <2>2, <2>3, <2>6 DEF Due
    <2>8. BalanceOf(Own("main"))' + balance + Due(m) = BalanceOf(Own("main")) + balance' + Due(m)'
      BY <1>13, <2>1, <2>5, <2>7
    <2>9. BalanceOf(Own("main"))' \in Nat /\ balance' \in Nat /\ Due(m)' \in Nat
      BY <1>13, <2>1, <2>7
    <2> QED
      BY <1>9, <1>11, <2>8, <2>9, DueKept
  <1>19. CASE stage = "Second"
    <2>1. main # to /\ main # from
      BY <1>4, <1>5, <1>19
    <2>2. BalanceOf(Own("main"))' = BalanceOf(Own("main"))
      BY <1>12, <1>13, <2>1
    <2>3. requests[m].operation # "CreditOnSuccess"
      BY <1>14, <1>19
    <2>4. BlocksOf(m, "main")' = BlocksOf(m, "main")
      BY <1>4, <1>10, <1>19
    <2>5. Due(m)' = Due(m)
      BY <1>16, <2>3, <2>4 DEF Due
    <2> QED
      BY <1>9, <1>11, <2>2, <2>5, DueSame
  <1> QED
    BY <1>4, <1>17, <1>18, <1>19

LEMMA LedgerStepDue ==
  ASSUME TerminalInv, KnownInv, DueInv, FeesPaid, NEW f \in Flow, LedgerStep(f)
  PROVE  DueInv'
  <1>1. UNCHANGED << balance, requests, credits, ledger_fee >>
    BY DEF LedgerStep, LedgerTransfers, LedgerReads, ReplyLost, CallLost, QueryLost, Handled, history
  <1>2. CASE UNCHANGED << funds, blocks >>
    BY <1>1, <1>2, PaysDueKept DEF PaysDue, NoCredit
  <1>3. CASE ~ UNCHANGED << funds, blocks >>
    <2>1. PICK tx, reply : tx = flows[f].tx /\ Handled(f, "transfer", reply)
      BY <1>3 DEF LedgerStep, LedgerTransfers, LedgerReads, ReplyLost, CallLost, QueryLost
    <2>2. Answer(tx).kind = "Ok" /\ Execute(tx)
      BY <1>3, <2>1 DEF LedgerStep, LedgerTransfers, LedgerReads, ReplyLost, CallLost, QueryLost, Executed
    <2>3. flows[f].call = "transfer" /\ flows[f].reply = NoReply /\ OwnMemo(flows[f])
      BY <2>1 DEF Handled, OwnMemo
    <2>4. tx \in TransferRecord /\ tx.memo \in DOMAIN requests /\ Waits(tx)
      BY <2>1, <2>3, OwnKnown DEF NoReply
    <2>5. credits[tx.memo] = << >>
      BY <2>1, <2>3, OwnRequestKnown
    <2> QED
      BY <1>1, <2>2, <2>4, <2>5, ExecuteDue
  <1> QED
    BY <1>2, <1>3

LEMMA DueInvNext ==
  ASSUME FeesPaid, TerminalInv, KnownInv, DueInv, [Next]_vars
  PROVE  DueInv'
  <1>1. CASE \E f \in Flow, amount \in Amounts : Deposit(f, amount) \/ Withdraw(f, amount)
    BY <1>1, DepositDue
  <1>2. CASE \E f \in Flow : Continue(f)
    BY <1>2, ContinuePaysDue, PaysDueKept, DepositBalanceDue
  <1>3. CASE \E f \in Flow : LedgerStep(f)
    BY <1>3, LedgerStepDue
  <1>4. CASE UNCHANGED << funds, blocks, requests, credits, balance >>
    BY <1>4, PaysDueKept DEF PaysDue, NoCredit
  <1>5. ASSUME NEW f \in Flow, DepositAll(f) \/ RecoverAll(f)
        PROVE  UNCHANGED << funds, blocks, requests, credits, balance >>
    BY <1>5 DEF DepositAll, RecoverAll, ledger, history
  <1>6. ASSUME \/ \E fee \in AdminFees : SetFee(fee)
               \/ LedgerFeeChanges \/ Tick \/ UNCHANGED vars
        PROVE  UNCHANGED << funds, blocks, requests, credits, balance >>
    BY <1>6 DEF SetFee, LedgerFeeChanges, Tick, vars, canister, ledger, history
  <1> QED
    BY <1>1, <1>2, <1>3, <1>4, <1>5, <1>6 DEF Next

LEMMA DueInvInit == Init => DueInv
  <1> SUFFICES ASSUME Init PROVE DueInv
    OBVIOUS
  <1>1. requests = << >> /\ balance = Funds /\ blocks = {}
    BY DEF Init
  <1>2. Len(requests) = 0
    BY <1>1
  <1>3. BalanceOf(Own("main")) = Funds
    BY DEF Init, BalanceOf, Own
  <1>4. PICK sums : sums = [k \in 0 .. 0 |-> 0]
    OBVIOUS
  <1>5. Adds(sums, AllDue, 0) /\ sums[0] = 0
    BY <1>4 DEF Adds
  <1>6. BalanceOf(Own("main")) = balance + sums[0]
    BY <1>1, <1>3, <1>5, Constants
  <1> QED
    BY <1>1, <1>2, <1>5, <1>6 DEF DueInv

(***************************************************************************)
(* The canister's main account always holds the user's balance, while the  *)
(* ledger's fee and the configured one change at any time, so that what is *)
(* credited for a deposit and refunded for a withdrawal depends on when    *)
(* each attempt was made: with no call lost and amounts that differ and    *)
(* cover the fees.                                                         *)
(***************************************************************************)
THEOREM BalanceIsCoveredAtAnyFee ==
  ASSUME Lossless, FeesPaid, DistinctAmounts
  PROVE  Spec => []Solvent
  <1>1. TerminalInv /\ KnownInv /\ DueInv /\ [Next]_vars => DueInv'
    BY DueInvNext
  <1>2. TerminalInv /\ DueInv => Solvent
    <2> SUFFICES ASSUME TerminalInv, DueInv PROVE Solvent
      OBVIOUS
    <2>1. PICK sums : /\ Adds(sums, AllDue, Len(requests))
                      /\ BalanceOf(Own("main")) = balance + sums[Len(requests)]
      BY DEF DueInv
    <2>2. balance \in Nat /\ Len(requests) \in Nat
      BY DEF TerminalInv, CanisterInv, HistoryInv
    <2>3. sums[Len(requests)] \in Nat
      BY <2>1, <2>2 DEF Adds
    <2> QED
      BY <2>1, <2>2, <2>3 DEF Solvent
  <1> QED
    BY <1>1, <1>2, DueInvInit, KnownInvariant, PTL DEF Spec
=============================================================================
