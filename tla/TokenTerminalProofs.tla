------------------------ MODULE TokenTerminalProofs ------------------------
(***************************************************************************)
(* Proofs about the token terminal, for any number of concurrent calls,    *)
(* any fees and amounts, and whatever calls are lost: types, one owner for *)
(* every transfer, and no transfer credited twice.                         *)
(***************************************************************************)
EXTENDS TokenTerminal, SequenceTheorems, FiniteSetTheorems, TLAPS

-----------------------------------------------------------------------------
(* Sequences and records *)

\* A function on the domain of a sequence is a sequence of its length.
LEMMA SameLength ==
  ASSUME NEW S, NEW T, NEW s \in Seq(S), NEW r \in [DOMAIN s -> T]
  PROVE  r \in Seq(T) /\ Len(r) = Len(s)
  <1>1. PICK l \in Nat : l = Len(s) /\ DOMAIN s = 1 .. l
    OBVIOUS
  <1>2. r \in [1 .. l -> T]
    BY <1>1
  <1>3. r \in Seq(T)
    <2>1. r \in UNION {[1 .. k -> T] : k \in Nat}
      BY <1>2, Zenon
    <2> QED
      BY <2>1, SeqDef, Zenon
  <1>4. PICK k \in Nat : k = Len(r) /\ DOMAIN r = 1 .. k
    BY <1>3
  <1>5. \A i \in Int : i \in 1 .. l <=> i \in 1 .. k
    BY <1>2, <1>4
  <1>6. ~ l < k /\ ~ k < l
    BY <1>5
  <1> QED
    BY <1>1, <1>3, <1>4, <1>6

\* The constants are the numbers of the code.
LEMMA Constants ==
  /\ NRetries \in Nat \ {0} /\ DedupPeriod \in Nat /\ TxWindow \in Nat /\ TxWindow <= DedupPeriod
  /\ \A a \in Amounts : a \in Nat
  /\ \A x \in LedgerFees : x \in Nat
  /\ \A x \in AdminFees : x \in Nat
  /\ Funds \in Nat /\ InitialFee \in Nat
  BY AmountsAssumption, RetriesAssumption, PeriodsAssumption

\* What the methods of Transfer make of a transfer.
LEMMA TransferTypes ==
  ASSUME NEW tx \in TransferRecord, NEW now \in Nat, NEW fee \in Nat
  PROVE  /\ WithFee(tx, fee) \in TransferRecord /\ WithFee(tx, fee).memo = tx.memo
         /\ ResetTs(tx) \in TransferRecord /\ ResetTs(tx).memo = tx.memo
         /\ Renew(tx, now) \in TransferRecord /\ Renew(tx, now).memo = tx.memo
         /\ NextStep(tx, now) \in TransferRecord /\ NextStep(tx, now).memo = tx.memo
         /\ AmountMinusFee(tx) \in Nat /\ tx.amount \in Nat /\ tx.memo \in Nat
  <1>1. tx.amount \in Nat /\ tx.fee \in Nat /\ tx.memo \in Nat
    BY DEF TransferRecord
  <1>2. AmountMinusFee(tx) \in Nat
    BY <1>1 DEF AmountMinusFee
  <1>3. WithFee(tx, fee) \in TransferRecord /\ WithFee(tx, fee).memo = tx.memo
    BY DEF WithFee, TransferRecord
  <1>4. ResetTs(tx) \in TransferRecord /\ ResetTs(tx).memo = tx.memo
    BY DEF ResetTs, TransferRecord
  <1>5. Renew(tx, now) \in TransferRecord /\ Renew(tx, now).memo = tx.memo
    BY DEF Renew, TransferRecord
  <1>6. NextStep(tx, now) \in TransferRecord /\ NextStep(tx, now).memo = tx.memo
    BY <1>2 DEF NextStep, TransferRecord, Stage
  <1> QED
    BY <1>1, <1>2, <1>3, <1>4, <1>5, <1>6

LEMMA NewTransferType ==
  ASSUME NEW operation \in Operation, NEW amount \in Nat, NEW fee \in Nat, NEW now \in Nat, NEW memo \in Nat
  PROVE  /\ NewTransfer(operation, amount, fee, now, memo) \in TransferRecord
         /\ NewTransfer(operation, amount, fee, now, memo).memo = memo
         /\ NewTransfer(operation, amount, fee, now, memo).fee = fee
  <1>1. [kind |-> "interim", amount |-> amount, created_at |-> now] \in Account
    BY DEF Account
  <1> QED
    BY <1>1 DEF NewTransfer, TransferRecord, Stage

\* A flow that ends is idle.
LEMMA IdleFlow ==
  /\ Idle \in FlowRecord /\ Idle.call = "None" /\ Idle.queue = {} /\ CleanFlow(Idle) /\ ~ OwnMemo(Idle)
  <1>1. NoTx \in TransferRecord
    BY NewTransferType DEF NoTx, Operation
  <1>2. NoReply \in ReplyRecord
    BY DEF NoReply, ReplyRecord
  <1>3. Idle \in FlowRecord /\ Idle.call = "None" /\ Idle.queue = {}
    BY <1>1, <1>2, Constants DEF Idle, FlowRecord, Query
  <1> QED
    BY <1>3 DEF CleanFlow, OwnMemo

\* Does the flow have the transfer with this memo?
Holds(r, m) == (OwnMemo(r) /\ r.tx.memo = m) \/ \E t \in r.queue : t.memo = m

Lists(list, m) == \E t \in list : t.memo = m

LEMMA HeldByHolds == \A f \in Flow : \A m : HeldBy(f, m) <=> Holds(flows[f], m)
  BY DEF HeldBy, Holds, OwnMemo

\* A flow that awaits the ledger's answer to a transfer.
LEMMA SendFlow ==
  ASSUME NEW f \in Flow, flows[f] \in FlowRecord, clock \in Nat, NEW tx \in TransferRecord,
         NEW n \in 0 .. NRetries
  PROVE  \A r \in {Send(f, tx, n, TRUE), Send(f, tx, n, FALSE)} :
           /\ r \in FlowRecord /\ r.call = "transfer" /\ r.reply = NoReply /\ r.tx = tx
           /\ r.retries = n /\ r.queue = flows[f].queue /\ r.fee = flows[f].fee /\ r.since = clock
  <1>1. NoReply \in ReplyRecord
    BY DEF NoReply, ReplyRecord
  <1>2. \A b \in BOOLEAN : Send(f, tx, n, b) \in FlowRecord
    BY <1>1 DEF Send, FlowRecord
  <1>3. \A b \in BOOLEAN :
          LET r == Send(f, tx, n, b)
          IN  /\ r.call = "transfer" /\ r.reply = NoReply /\ r.tx = tx
              /\ r.retries = n /\ r.queue = flows[f].queue /\ r.fee = flows[f].fee /\ r.since = clock
    BY <1>1 DEF Send, FlowRecord
  <1> QED
    BY <1>2, <1>3, Zenon

\* A flow in which recover_tx awaits its first call.
LEMMA RecoverFlow ==
  ASSUME NEW f \in Flow, flows[f] \in FlowRecord, clock \in Nat, NEW tx \in TransferRecord
  PROVE  LET r == Recover(f, tx)
         IN  /\ r \in FlowRecord /\ r.call \in {"transfer", "interim_balance"} /\ r.reply = NoReply
             /\ r.tx = tx /\ r.queue = flows[f].queue
             /\ r.call = "transfer" => r.retries = NRetries /\ CanDeduplicate(tx)
  <1>1. NoReply \in ReplyRecord
    BY DEF NoReply, ReplyRecord
  <1>2. CASE CanDeduplicate(tx)
    <2>1. Recover(f, tx) = Send(f, tx, NRetries, TRUE)
      BY <1>2 DEF Recover
    <2>2. NRetries \in 0 .. NRetries
      BY Constants
    <2> QED
      BY <1>1, <1>2, <2>1, <2>2 DEF Send, FlowRecord
  <1>3. CASE ~ CanDeduplicate(tx)
    <2>1. Recover(f, tx) = [flows[f] EXCEPT !.call = "interim_balance", !.reply = NoReply, !.tx = tx]
      BY <1>3 DEF Recover
    <2> QED
      BY <1>1, <2>1 DEF FlowRecord, Query
  <1> QED
    BY <1>2, <1>3

\* What is in the list, and with the invariant in every flow, is typed.
LEMMA Typed ==
  ASSUME TerminalInv, NEW f \in Flow
  PROVE  /\ CleanFlow(flows[f]) /\ flows[f] \in FlowRecord /\ flows \in [Flow -> FlowRecord]
         /\ flows[f].tx \in TransferRecord /\ flows[f].tx.memo \in Nat
         /\ flows[f].fee \in Nat /\ flows[f].retries \in 0 .. NRetries
         /\ flows[f].queue \subseteq TransferRecord /\ \A t \in flows[f].queue : t.memo \in Nat
         /\ clock \in Nat /\ balance \in Nat
  <1>1. CleanFlow(flows[f]) /\ flows \in [Flow -> FlowRecord] /\ clock \in Nat /\ balance \in Nat
    BY DEF TerminalInv, CanisterInv, LedgerInv
  <1>2. flows[f] \in FlowRecord
    BY <1>1
  <1>3. /\ flows[f].tx \in TransferRecord /\ flows[f].fee \in Nat /\ flows[f].retries \in 0 .. NRetries
        /\ flows[f].queue \subseteq TransferRecord
    BY <1>2 DEF FlowRecord
  <1>4. flows[f].tx.memo \in Nat /\ \A t \in flows[f].queue : t.memo \in Nat
    BY <1>3 DEF TransferRecord
  <1> QED
    BY <1>1, <1>2, <1>3, <1>4

-----------------------------------------------------------------------------
(* What a step does to the owners *)

\* The records of flows after a step of flow f.
LEMMA OneFlowMoves ==
  ASSUME TerminalInv, NEW f \in Flow, NEW n, CleanFlow(n), flows' = [flows EXCEPT ![f] = n]
  PROVE  /\ flows' \in [Flow -> FlowRecord] /\ (\A g \in Flow : CleanFlow(flows[g]))'
         /\ flows'[f] = n /\ \A g \in Flow \ {f} : flows'[g] = flows[g]
  <1>1. flows \in [Flow -> FlowRecord] /\ \A g \in Flow : CleanFlow(flows[g])
    BY DEF TerminalInv, CanisterInv
  <1>2. n \in FlowRecord
    BY DEF CleanFlow
  <1>3. flows'[f] = n /\ (\A g \in Flow \ {f} : flows'[g] = flows[g]) /\ flows' \in [Flow -> FlowRecord]
    BY <1>1, <1>2
  <1>4. \A g \in Flow : CleanFlow(flows'[g])
    BY <1>1, <1>3
  <1>5. (\A g \in Flow : CleanFlow(flows[g]))'
    BY <1>4 DEF CleanFlow, OwnMemo
  <1> QED
    BY <1>3, <1>5

\* A step of flow f takes no transfer from other flows, gives none away but to
\* the list, and credits only what it lets go of.
LEMMA OwnersKept ==
  ASSUME TerminalInv, NEW f \in Flow, NEW n, CleanFlow(n), flows' = [flows EXCEPT ![f] = n],
         \A m \in Nat : Holds(n, m) =>
           ~ Lists(recovery', m) /\ (Holds(flows[f], m) \/ Lists(recovery, m)),
         \A m \in Nat : Lists(recovery', m) => Lists(recovery, m) \/ Holds(flows[f], m),
         requests' = requests, credits' \in Seq(Seq(Nat)), Len(credits') = Len(credits),
         \A m \in DOMAIN credits :
           \/ credits'[m] = credits[m]
           \/ /\ Holds(flows[f], m) /\ ~ Holds(n, m) /\ ~ Lists(recovery', m)
              /\ Len(credits'[m]) = 1
  PROVE  OwnerInv'
  <1>1. /\ \A m \in Nat : (Lists(recovery, m) \/ \E g \in Flow : Holds(flows[g], m))
                            => m \in DOMAIN requests /\ credits[m] = << >>
        /\ \A g, h \in Flow, m \in Nat : Holds(flows[g], m) /\ Holds(flows[h], m) => g = h
        /\ \A g \in Flow, m \in Nat : Holds(flows[g], m) => ~ Lists(recovery, m)
        /\ \A m \in DOMAIN credits : Len(credits[m]) <= 1
    BY HeldByHolds DEF TerminalInv, OwnerInv, Live, Listed, Lists
  <1>2. flows'[f] = n /\ \A g \in Flow \ {f} : flows'[g] = flows[g]
    BY OneFlowMoves
  <1>3. \A g \in Flow, m \in Nat :
          Holds(flows'[g], m) => Holds(flows[g], m) \/ (g = f /\ Lists(recovery, m))
    BY <1>2
  <1>4. DOMAIN credits' = DOMAIN credits /\ DOMAIN credits = DOMAIN requests
    <2>1. credits \in Seq(Seq(Nat)) /\ requests \in Seq(TransferRecord) /\ Len(credits) = Len(requests)
      BY DEF TerminalInv, HistoryInv
    <2> QED
      BY <2>1
  <1>5. \A g, h \in Flow, m \in Nat : Holds(flows'[g], m) /\ Holds(flows'[h], m) => g = h
    BY <1>1, <1>3
  <1>6. ASSUME NEW g \in Flow, NEW m \in Nat, Holds(flows'[g], m) PROVE ~ Lists(recovery', m)
    <2>1. CASE g = f
      BY <1>2, <1>6, <2>1
    <2>2. CASE g # f
      BY <1>1, <1>2, <1>3, <1>6, <2>2
    <2> QED
      BY <2>1, <2>2
  <1>7. ASSUME NEW m \in Nat, Lists(recovery', m) \/ \E g \in Flow : Holds(flows'[g], m)
        PROVE  m \in DOMAIN requests' /\ credits'[m] = << >>
    <2>1. Lists(recovery, m) \/ \E g \in Flow : Holds(flows[g], m)
      BY <1>3, <1>7
    <2>2. m \in DOMAIN requests /\ credits[m] = << >>
      BY <1>1, <2>1
    <2>3. CASE credits'[m] = credits[m]
      BY <2>2, <2>3
    <2>4. CASE Holds(flows[f], m) /\ ~ Holds(n, m) /\ ~ Lists(recovery', m)
      <3>1. PICK g \in Flow : Holds(flows'[g], m)
        BY <1>7, <2>4
      <3>2. g = f
        BY <1>1, <1>3, <2>4, <3>1
      <3> QED
        BY <1>2, <2>4, <3>1, <3>2
    <2> QED
      BY <1>4, <2>2, <2>3, <2>4
  <1>8. \A m \in DOMAIN credits' : Len(credits'[m]) <= 1
    <2> SUFFICES ASSUME NEW m \in DOMAIN credits' PROVE Len(credits'[m]) <= 1
      OBVIOUS
    <2>1. m \in DOMAIN credits /\ Len(credits[m]) <= 1
      BY <1>1, <1>4
    <2>2. CASE credits'[m] = credits[m]
      BY <2>1, <2>2
    <2>3. CASE Len(credits'[m]) = 1
      BY <2>3
    <2> QED
      BY <2>1, <2>2, <2>3
  <1>9. \A g \in Flow : \A m : HeldBy(g, m)' <=> Holds(flows'[g], m)
    BY DEF HeldBy, Holds, OwnMemo
  <1>10. \A m : Listed(m)' <=> Lists(recovery', m)
    BY DEF Listed, Lists
  <1>11. \A m : Live(m)' <=> Lists(recovery', m) \/ \E g \in Flow : Holds(flows'[g], m)
    BY <1>9, <1>10 DEF Live
  <1> QED
    BY <1>5, <1>6, <1>7, <1>8, <1>9, <1>10, <1>11 DEF OwnerInv

-----------------------------------------------------------------------------
(* The list, the credits and the end of a transfer *)

\* Transfers of different requests.
OnePerMemo(list) == \A t, u \in list : t.memo = u.memo => t = u

\* push adds the transfer and no other.
LEMMA PushedList ==
  ASSUME NEW list, list \subseteq TransferRecord, OnePerMemo(list), NEW tx \in TransferRecord,
         ~ Lists(list, tx.memo)
  PROVE  /\ Pushed(list, tx) \subseteq TransferRecord /\ OnePerMemo(Pushed(list, tx))
         /\ \A m : Lists(Pushed(list, tx), m) => Lists(list, m) \/ m = tx.memo
  <1>1. \A t \in Pushed(list, tx) : t = tx \/ t \in list
    BY DEF Pushed
  <1> QED
    BY <1>1 DEF OnePerMemo, Lists

\* Rewriting the list keeps at most the transfers that are in it.
LEMMA RewrittenList ==
  ASSUME TerminalInv, NEW fee \in Nat, NEW list \in Rewritten(fee)
  PROVE  /\ list \subseteq TransferRecord /\ OnePerMemo(list)
         /\ \A m : Lists(list, m) => Lists(recovery, m)
         /\ \A t \in list : \E u \in recovery : t = ResetTs(WithFee(u, fee))
  <1>1. recovery \subseteq TransferRecord /\ OnePerMemo(recovery)
    BY DEF TerminalInv, CanisterInv, OnePerMemo
  <1>2. \A t \in list : \E u \in recovery : t = ResetTs(WithFee(u, fee))
    BY DEF Rewritten
  <1>3. \A u \in recovery : ResetTs(WithFee(u, fee)) \in TransferRecord /\ ResetTs(WithFee(u, fee)).memo = u.memo
    <2> SUFFICES ASSUME NEW u \in recovery
                 PROVE  ResetTs(WithFee(u, fee)) \in TransferRecord /\ ResetTs(WithFee(u, fee)).memo = u.memo
      OBVIOUS
    <2>1. WithFee(u, fee) \in TransferRecord /\ WithFee(u, fee).memo = u.memo
      BY <1>1, TransferTypes
    <2> QED
      BY <2>1, TransferTypes
  <1> QED
    BY <1>1, <1>2, <1>3 DEF OnePerMemo, Lists

\* A step credits the transfer with this memo at most, and that one once.
CreditsAtMost(memo) ==
  /\ balance' \in Nat /\ credits' \in Seq(Seq(Nat)) /\ Len(credits') = Len(credits)
  /\ \A m \in DOMAIN credits :
       credits'[m] = credits[m] \/ (m = memo /\ Len(credits'[m]) = 1)

LEMMA NoCreditIsNone ==
  ASSUME TerminalInv, NoCredit, NEW memo
  PROVE  CreditsAtMost(memo) /\ credits' = credits
  BY DEF TerminalInv, CanisterInv, HistoryInv, NoCredit, CreditsAtMost

LEMMA CreditIsOne ==
  ASSUME TerminalInv, NEW f \in Flow, OwnMemo(flows[f]), NEW amount \in Nat,
         Credit(flows[f].tx.memo, amount)
  PROVE  CreditsAtMost(flows[f].tx.memo)
  <1> DEFINE memo == flows[f].tx.memo
  <1>1. balance \in Nat /\ credits \in Seq(Seq(Nat)) /\ requests \in Seq(TransferRecord) /\ Len(credits) = Len(requests)
    BY DEF TerminalInv, CanisterInv, HistoryInv
  <1>2. memo \in Nat
    BY Typed
  <1>3. memo \in DOMAIN requests /\ credits[memo] = << >>
    <2>1. HeldBy(f, memo)
      BY HeldByHolds DEF Holds
    <2> QED
      BY <1>2, <2>1 DEF TerminalInv, OwnerInv, Live
  <1>4. memo \in DOMAIN credits
    BY <1>1, <1>3
  <1>5. balance' = balance + amount /\ credits' = [credits EXCEPT ![memo] = Append(@, amount)]
    BY DEF Credit
  <1>6. Append(credits[memo], amount) \in Seq(Nat) /\ Len(Append(credits[memo], amount)) = 1
    BY <1>3
  <1>7. credits' \in Seq(Seq(Nat)) /\ Len(credits') = Len(credits)
    <2>1. credits' \in [DOMAIN credits -> Seq(Nat)]
      <3>1. \A i \in DOMAIN credits : credits[i] \in Seq(Nat)
        BY <1>1
      <3> QED
        BY <1>4, <1>5, <1>6, <3>1
    <2> QED
      BY <1>1, <2>1, SameLength
  <1> QED
    BY <1>1, <1>4, <1>5, <1>6, <1>7 DEF CreditsAtMost

\* What a flow is after a transfer of it has ended: idle, or recover_all with
\* the next of the transfers that it took.
Ended(f, fee, n) ==
  \/ n = Idle
  \/ \E t \in flows[f].queue, rest \in SUBSET flows[f].queue :
       t \notin rest /\ ~ TooOld(t) /\ n = [Recover(f, t) EXCEPT !.fee = fee, !.queue = rest]

LEMMA ReturnEnds ==
  ASSUME TerminalInv, NEW f \in Flow, NEW fee \in Nat, NEW memo, NEW result \in Outcome,
         Return(f, fee, memo, result)
  PROVE  /\ \E n : Ended(f, fee, n) /\ flows' = [flows EXCEPT ![f] = n]
         /\ outcome' \in Seq(Outcome) /\ Len(outcome') = Len(outcome)
  <1>1. outcome \in Seq(Outcome)
    BY DEF TerminalInv, HistoryInv
  <1>2. PICK late \in SUBSET flows[f].queue :
          /\ late = {t \in flows[f].queue : TooOld(t)}
          /\ outcome' = [m \in DOMAIN outcome |->
                IF m = memo THEN result
                ELSE IF \E t \in late : t.memo = m THEN "TooOld" ELSE outcome[m]]
          /\ IF flows[f].queue = late
             THEN flows' = [flows EXCEPT ![f] = Idle]
             ELSE \E t \in flows[f].queue \ late :
                    flows' = [flows EXCEPT ![f] =
                      [Recover(f, t) EXCEPT !.fee = fee, !.queue = flows[f].queue \ (late \cup {t})]]
    BY DEF Return
  <1>3. outcome' \in [DOMAIN outcome -> Outcome]
    <2>1. \A m \in DOMAIN outcome : outcome[m] \in Outcome
      BY <1>1
    <2>2. "TooOld" \in Outcome
      BY DEF Outcome
    <2> QED
      BY <1>2, <2>1, <2>2
  <1>4. outcome' \in Seq(Outcome) /\ Len(outcome') = Len(outcome)
    BY <1>1, <1>3, SameLength
  <1>5. CASE flows[f].queue = late
    BY <1>2, <1>4, <1>5 DEF Ended
  <1>6. CASE flows[f].queue # late
    <2>1. PICK t \in flows[f].queue \ late :
            flows' = [flows EXCEPT ![f] =
              [Recover(f, t) EXCEPT !.fee = fee, !.queue = flows[f].queue \ (late \cup {t})]]
      BY <1>2, <1>6
    <2>2. Ended(f, fee, [Recover(f, t) EXCEPT !.fee = fee, !.queue = flows[f].queue \ (late \cup {t})])
      BY <1>2, <2>1 DEF Ended
    <2> QED
      BY <1>4, <2>1, <2>2
  <1> QED
    BY <1>5, <1>6

\* The flow that is left has fewer transfers, and not the one that has ended.
LEMMA EndedFlow ==
  ASSUME TerminalInv, NEW f \in Flow, OwnMemo(flows[f]), NEW fee \in Nat, NEW n, Ended(f, fee, n)
  PROVE  /\ CleanFlow(n)
         /\ \A m : Holds(n, m) => Holds(flows[f], m) /\ m # flows[f].tx.memo
  <1>1. CASE n = Idle
    BY <1>1, IdleFlow DEF Holds
  <1>2. CASE n # Idle
    <2>1. PICK t \in flows[f].queue, rest \in SUBSET flows[f].queue :
            t \notin rest /\ n = [Recover(f, t) EXCEPT !.fee = fee, !.queue = rest]
      BY <1>2 DEF Ended
    <2>2. /\ flows[f] \in FlowRecord /\ flows[f].queue \subseteq TransferRecord /\ clock \in Nat
          /\ \A u, v \in flows[f].queue : u.memo = v.memo => u = v
          /\ \A u \in flows[f].queue : u.memo # flows[f].tx.memo
      BY Typed DEF CleanFlow
    <2>3. /\ Recover(f, t) \in FlowRecord /\ Recover(f, t).call \in {"transfer", "interim_balance"}
          /\ Recover(f, t).tx = t
          /\ Recover(f, t).call = "transfer" => Recover(f, t).retries = NRetries
      BY <2>2, RecoverFlow
    <2>4. /\ n \in FlowRecord /\ n.call \in {"transfer", "interim_balance"} /\ n.tx = t /\ n.queue = rest
          /\ n.call = "transfer" => n.retries = NRetries
      BY <2>1, <2>2, <2>3 DEF FlowRecord
    <2>5. CleanFlow(n)
      <3>1. n.call \in {"transfer", "minting_account"} => n.retries > 0
        BY <2>4, Constants
      <3>2. \A u, v \in n.queue : u.memo = v.memo => u = v
        BY <2>2, <2>4
      <3>3. \A u \in n.queue : u.memo # n.tx.memo
        BY <2>1, <2>2, <2>4
      <3> QED
        BY <2>4, <3>1, <3>2, <3>3 DEF CleanFlow
    <2>6. \A m : Holds(n, m) => Holds(flows[f], m) /\ m # flows[f].tx.memo
      BY <2>1, <2>2, <2>4 DEF Holds
    <2> QED
      BY <2>5, <2>6
  <1> QED
    BY <1>1, <1>2

-----------------------------------------------------------------------------
(* The invariant, one step at a time *)

LEMMA LedgerStays ==
  ASSUME TerminalInv, UNCHANGED << ledger, clock, faults >>
  PROVE  LedgerInv'
  BY DEF TerminalInv, LedgerInv, ledger

\* A step of flow f keeps the invariant if it keeps the owners.
LEMMA MessageKeeps ==
  ASSUME TerminalInv, NEW f \in Flow, NEW n, CleanFlow(n), flows' = [flows EXCEPT ![f] = n],
         \A m \in Nat : Holds(n, m) =>
           ~ Lists(recovery', m) /\ (Holds(flows[f], m) \/ Lists(recovery, m)),
         \A m \in Nat : Lists(recovery', m) => Lists(recovery, m) \/ Holds(flows[f], m),
         recovery' \subseteq TransferRecord, OnePerMemo(recovery'),
         NEW memo, CreditsAtMost(memo),
         credits' = credits \/ (Holds(flows[f], memo) /\ ~ Holds(n, memo) /\ ~ Lists(recovery', memo)),
         saved_fee' \in Nat, outcome' \in Seq(Outcome), Len(outcome') = Len(outcome),
         LedgerInv', UNCHANGED requests
  PROVE  TerminalInv'
  <1>1. balance' \in Nat /\ credits' \in Seq(Seq(Nat)) /\ Len(credits') = Len(credits)
    BY DEF CreditsAtMost
  <1>2. CanisterInv'
    <2>1. flows' \in [Flow -> FlowRecord] /\ (\A g \in Flow : CleanFlow(flows[g]))'
      BY OneFlowMoves
    <2> QED
      BY <1>1, <2>1 DEF CanisterInv, OnePerMemo
  <1>3. HistoryInv'
    BY <1>1 DEF TerminalInv, HistoryInv
  <1>4. OwnerInv'
    <2>1. \A m \in DOMAIN credits :
            \/ credits'[m] = credits[m]
            \/ /\ Holds(flows[f], m) /\ ~ Holds(n, m) /\ ~ Lists(recovery', m)
               /\ Len(credits'[m]) = 1
      BY DEF CreditsAtMost
    <2> QED
      BY <1>1, <2>1, OwnersKept
  <1> QED
    BY <1>2, <1>3, <1>4 DEF TerminalInv

\* The list, and the transfer of a flow, with the invariant.
LEMMA ListTyped ==
  ASSUME TerminalInv
  PROVE  /\ recovery \subseteq TransferRecord /\ OnePerMemo(recovery) /\ saved_fee \in Nat
         /\ outcome \in Seq(Outcome)
         /\ \A f \in Flow, m \in Nat : Holds(flows[f], m) => ~ Lists(recovery, m)
  <1>1. \A f \in Flow, m \in Nat : HeldBy(f, m) => ~ Listed(m)
    BY DEF TerminalInv, OwnerInv
  <1>2. \A f \in Flow, m \in Nat : Holds(flows[f], m) => ~ Lists(recovery, m)
    BY <1>1, HeldByHolds DEF Listed, Lists
  <1> QED
    BY <1>2 DEF TerminalInv, CanisterInv, HistoryInv, OnePerMemo

\* A step that ends the transfer of flow f: it may be credited, or be pushed.
LEMMA EndKeeps ==
  ASSUME TerminalInv, NEW f \in Flow, OwnMemo(flows[f]), NEW fee \in Nat, NEW result \in Outcome,
         Return(f, fee, flows[f].tx.memo, result),
         CreditsAtMost(flows[f].tx.memo), saved_fee' \in Nat,
         recovery' \subseteq TransferRecord, OnePerMemo(recovery'),
         \A m : Lists(recovery', m) =>
           Lists(recovery, m) \/ (m = flows[f].tx.memo /\ credits' = credits),
         UNCHANGED << ledger, clock, faults, requests >>
  PROVE  TerminalInv'
  <1>1. PICK n : Ended(f, fee, n) /\ flows' = [flows EXCEPT ![f] = n]
    BY ReturnEnds
  <1>2. outcome' \in Seq(Outcome) /\ Len(outcome') = Len(outcome)
    BY ReturnEnds
  <1>3. CleanFlow(n) /\ \A m : Holds(n, m) => Holds(flows[f], m) /\ m # flows[f].tx.memo
    BY <1>1, EndedFlow
  <1>4. Holds(flows[f], flows[f].tx.memo) /\ flows[f].tx.memo \in Nat
    BY Typed DEF Holds
  <1>5. \A m \in Nat : Holds(flows[f], m) => ~ Lists(recovery, m)
    BY ListTyped
  <1>6. \A m \in Nat : Holds(n, m) => ~ Lists(recovery', m) /\ (Holds(flows[f], m) \/ Lists(recovery, m))
    BY <1>3, <1>5
  <1>7. \A m \in Nat : Lists(recovery', m) => Lists(recovery, m) \/ Holds(flows[f], m)
    BY <1>4
  <1>8. \/ credits' = credits
        \/ /\ Holds(flows[f], flows[f].tx.memo) /\ ~ Holds(n, flows[f].tx.memo)
           /\ ~ Lists(recovery', flows[f].tx.memo)
    BY <1>3, <1>4, <1>5
  <1> QED
    BY <1>1, <1>2, <1>3, <1>6, <1>7, <1>8, MessageKeeps, LedgerStays

\* A step after which flow f goes on with its transfer.
LEMMA GoOnKeeps ==
  ASSUME TerminalInv, NEW f \in Flow, OwnMemo(flows[f]), NEW n, n \in FlowRecord,
         n.call \in {"transfer", "minting_account", "interim_balance"}, n.retries > 0,
         n.tx.memo = flows[f].tx.memo, n.queue = flows[f].queue, flows' = [flows EXCEPT ![f] = n],
         recovery' \subseteq TransferRecord, OnePerMemo(recovery'),
         \A m : Lists(recovery', m) => Lists(recovery, m),
         NoCredit, saved_fee' \in Nat, UNCHANGED outcome,
         UNCHANGED << ledger, clock, faults, requests >>
  PROVE  TerminalInv'
  <1>1. CleanFlow(flows[f])
    BY Typed
  <1>2. CleanFlow(n)
    BY <1>1 DEF CleanFlow, OwnMemo
  <1>3. \A m : Holds(n, m) => Holds(flows[f], m)
    BY DEF Holds
  <1>4. \A m \in Nat : Holds(flows[f], m) => ~ Lists(recovery, m)
    BY ListTyped
  <1>5. \A m \in Nat : Holds(n, m) => ~ Lists(recovery', m) /\ (Holds(flows[f], m) \/ Lists(recovery, m))
    BY <1>3, <1>4
  <1>6. CreditsAtMost(0) /\ credits' = credits
    BY NoCreditIsNone
  <1>7. outcome' \in Seq(Outcome) /\ Len(outcome') = Len(outcome)
    BY ListTyped
  <1> QED
    BY <1>2, <1>5, <1>6, <1>7, MessageKeeps, LedgerStays

\* complete() and reject(), of the transfer that flow f has
LEMMA CompleteKeeps ==
  ASSUME TerminalInv, NEW f \in Flow, OwnMemo(flows[f]), NEW n \in 1 .. NRetries,
         Complete(f, flows[f].tx, n), UNCHANGED << ledger, clock, faults, requests >>
  PROVE  TerminalInv'
  <1> DEFINE tx == flows[f].tx
             second == NextStep(tx, clock)
  <1>1. /\ tx \in TransferRecord /\ flows[f] \in FlowRecord /\ clock \in Nat /\ flows[f].fee \in Nat
        /\ recovery' = recovery /\ saved_fee' = saved_fee
    BY Typed DEF Complete
  <1>2. /\ recovery' \subseteq TransferRecord /\ OnePerMemo(recovery') /\ saved_fee' \in Nat
        /\ \A m : Lists(recovery', m) => Lists(recovery, m)
    BY <1>1, ListTyped DEF OnePerMemo, Lists
  <1>3. "Ok" \in Outcome /\ "InvalidParameters" \in Outcome
    BY DEF Outcome
  <1>4. CASE tx.stage = "First"
    <2>1. NoCredit
      BY <1>4 DEF Complete
    <2>2. CASE Valid(second)
      <3>1. flows' = [flows EXCEPT ![f] = Send(f, second, n, FALSE)] /\ UNCHANGED outcome
        BY <1>4, <2>2 DEF Complete
      <3>2. second \in TransferRecord /\ second.memo = tx.memo
        BY <1>1, TransferTypes
      <3>3. n \in 0 .. NRetries /\ n > 0
        BY Constants
      <3>4. PICK r : r = Send(f, second, n, FALSE)
        OBVIOUS
      <3>5. /\ r \in FlowRecord /\ r.call = "transfer" /\ r.tx = second /\ r.retries = n
            /\ r.queue = flows[f].queue
        BY <1>1, <3>2, <3>3, <3>4, SendFlow
      <3> QED
        BY <1>2, <2>1, <3>1, <3>2, <3>3, <3>4, <3>5, GoOnKeeps
    <2>3. CASE ~ Valid(second)
      <3>1. Return(f, flows[f].fee, tx.memo, "InvalidParameters")
        BY <1>4, <2>3 DEF Complete
      <3>2. CreditsAtMost(tx.memo)
        BY <2>1, NoCreditIsNone
      <3> QED
        BY <1>1, <1>2, <1>3, <3>1, <3>2, EndKeeps
    <2> QED
      BY <2>2, <2>3
  <1>5. CASE tx.stage # "First"
    <2>1. Return(f, flows[f].fee, tx.memo, "Ok")
      BY <1>5 DEF Complete
    <2>2. CreditsAtMost(tx.memo)
      <3>1. CASE tx.operation = "CreditOnSuccess"
        <4>1. Credit(tx.memo, AmountMinusFee(tx))
          BY <1>5, <3>1 DEF Complete
        <4>2. AmountMinusFee(tx) \in Nat
          BY <1>1, TransferTypes
        <4> QED
          BY <4>1, <4>2, CreditIsOne
      <3>2. CASE tx.operation # "CreditOnSuccess"
        <4>1. NoCredit
          BY <1>5, <3>2 DEF Complete
        <4> QED
          BY <4>1, NoCreditIsNone
      <3> QED
        BY <3>1, <3>2
    <2> QED
      BY <1>1, <1>2, <1>3, <2>1, <2>2, EndKeeps
  <1> QED
    BY <1>4, <1>5

LEMMA RejectKeeps ==
  ASSUME TerminalInv, NEW f \in Flow, OwnMemo(flows[f]), Reject(f, flows[f].tx),
         UNCHANGED << ledger, clock, faults, requests >>
  PROVE  TerminalInv'
  <1> DEFINE tx == flows[f].tx
  <1>1. tx \in TransferRecord /\ tx.memo \in Nat /\ flows[f].fee \in Nat
    BY Typed
  <1>2. /\ recovery \subseteq TransferRecord /\ OnePerMemo(recovery) /\ saved_fee' \in Nat
    BY ListTyped DEF Reject
  <1>3. "Recoverable" \in Outcome /\ "TransferFailed" \in Outcome
    BY DEF Outcome
  <1>4. CASE tx.stage = "Second"
    <2>1. recovery' = Pushed(recovery, tx) /\ NoCredit /\ Return(f, flows[f].fee, tx.memo, "Recoverable")
      BY <1>4 DEF Reject
    <2>2. ~ Lists(recovery, tx.memo)
      BY <1>1, ListTyped DEF Holds
    <2>3. /\ recovery' \subseteq TransferRecord /\ OnePerMemo(recovery')
          /\ \A m : Lists(recovery', m) => Lists(recovery, m) \/ m = tx.memo
      BY <1>1, <1>2, <2>1, <2>2, PushedList
    <2>4. CreditsAtMost(tx.memo) /\ credits' = credits
      BY <2>1, NoCreditIsNone
    <2> QED
      BY <1>1, <1>2, <1>3, <2>1, <2>3, <2>4, EndKeeps
  <1>5. CASE tx.stage # "Second"
    <2>1. recovery' = recovery /\ Return(f, flows[f].fee, tx.memo, "TransferFailed")
      BY <1>5 DEF Reject
    <2>2. CreditsAtMost(tx.memo)
      <3>1. CASE tx.operation = "CreditOnError"
        <4>1. Credit(tx.memo, tx.amount)
          BY <1>5, <3>1 DEF Reject
        <4>2. tx.amount \in Nat
          BY <1>1 DEF TransferRecord
        <4> QED
          BY <4>1, <4>2, CreditIsOne
      <3>2. CASE tx.operation # "CreditOnError"
        <4>1. NoCredit
          BY <1>5, <3>2 DEF Reject
        <4> QED
          BY <4>1, NoCreditIsNone
      <3> QED
        BY <3>1, <3>2
    <2> QED
      BY <1>1, <1>2, <1>3, <2>1, <2>2, EndKeeps DEF OnePerMemo, Lists
  <1> QED
    BY <1>4, <1>5

\* retry(), with a list of at most the transfers that are in the list now
LEMMA RetryKeeps ==
  ASSUME TerminalInv, NEW f \in Flow, OwnMemo(flows[f]), NEW fee \in Nat, NEW tx \in TransferRecord,
         tx.memo = flows[f].tx.memo, NEW n \in 0 .. NRetries, NEW list, Retry(f, fee, tx, n, list),
         list \subseteq TransferRecord, OnePerMemo(list), \A m : Lists(list, m) => Lists(recovery, m),
         saved_fee' \in Nat, UNCHANGED << ledger, clock, faults, requests >>
  PROVE  TerminalInv'
  <1>1. NoCredit /\ flows[f].tx.memo \in Nat /\ flows[f] \in FlowRecord /\ clock \in Nat
    BY Typed DEF Retry
  <1>2. CASE n = 0
    <2>1. recovery' = Pushed(list, tx) /\ Return(f, fee, tx.memo, "Recoverable")
      BY <1>2 DEF Retry
    <2>2. ~ Lists(list, tx.memo)
      BY <1>1, ListTyped DEF Holds
    <2>3. /\ recovery' \subseteq TransferRecord /\ OnePerMemo(recovery')
          /\ \A m : Lists(recovery', m) => Lists(list, m) \/ m = tx.memo
      BY <2>1, <2>2, PushedList
    <2>4. CreditsAtMost(tx.memo) /\ credits' = credits
      BY <1>1, NoCreditIsNone
    <2>5. "Recoverable" \in Outcome
      BY DEF Outcome
    <2> QED
      BY <2>1, <2>3, <2>4, <2>5, EndKeeps
  <1>3. CASE n # 0
    <2>1. /\ recovery' = list /\ UNCHANGED outcome
          /\ flows' = [flows EXCEPT ![f] = [Send(f, tx, n, TRUE) EXCEPT !.fee = fee, !.since = flows[f].since]]
      BY <1>3 DEF Retry
    <2>2. PICK s : s = Send(f, tx, n, TRUE)
      OBVIOUS
    <2>3. /\ s \in FlowRecord /\ s.call = "transfer" /\ s.tx = tx /\ s.retries = n
          /\ s.queue = flows[f].queue
      BY <1>1, <2>2, SendFlow
    <2>4. PICK r : r = [s EXCEPT !.fee = fee, !.since = flows[f].since]
      OBVIOUS
    <2>5. flows[f].since \in Nat
      BY <1>1 DEF FlowRecord
    <2>6. /\ r \in FlowRecord /\ r.call = "transfer" /\ r.tx = tx /\ r.retries = n
          /\ r.queue = flows[f].queue
      BY <2>3, <2>4, <2>5 DEF FlowRecord
    <2>7. flows' = [flows EXCEPT ![f] = r]
      BY <2>1, <2>2, <2>4
    <2>8. r.retries > 0
      BY <1>3, <2>6
    <2>9. recovery' \subseteq TransferRecord /\ OnePerMemo(recovery') /\ \A m : Lists(recovery', m) => Lists(recovery, m)
      BY <2>1
    <2> QED
      BY <1>1, <2>1, <2>6, <2>7, <2>8, <2>9, GoOnKeeps
  <1> QED
    BY <1>2, <1>3

LEMMA UpdateConfigKeeps ==
  ASSUME TerminalInv, NEW f \in Flow, flows[f].call \in {"transfer", "minting_account"}, NEW fee \in Nat,
         UpdateConfigAndRetry(f, fee, flows[f].retries - 1),
         UNCHANGED << ledger, clock, faults, requests >>
  PROVE  TerminalInv'
  <1>1. PICK list \in Rewritten(fee) : Retry(f, fee, WithFee(flows[f].tx, fee), flows[f].retries - 1, list)
    BY DEF UpdateConfigAndRetry
  <1>2. saved_fee' = fee
    BY DEF UpdateConfigAndRetry
  <1>3. WithFee(flows[f].tx, fee) \in TransferRecord /\ WithFee(flows[f].tx, fee).memo = flows[f].tx.memo
    BY Typed, TransferTypes
  <1>4. flows[f].retries - 1 \in 0 .. NRetries
    <2>1. flows[f].retries \in 0 .. NRetries /\ flows[f].retries > 0
      BY Typed DEF CleanFlow
    <2> QED
      BY <2>1, Constants
  <1>5. list \subseteq TransferRecord /\ OnePerMemo(list) /\ \A m : Lists(list, m) => Lists(recovery, m)
    BY <1>1, RewrittenList
  <1> QED
    BY <1>1, <1>2, <1>3, <1>4, <1>5, RetryKeeps DEF OwnMemo

\* Each of the messages with which a flow goes on
LEMMA ContinueKeeps ==
  ASSUME TerminalInv, NEW f \in Flow, Continue(f)
  PROVE  TerminalInv' \/ OnDepositBalance(f)
  <1> DEFINE tx == flows[f].tx
  <1>1. /\ tx \in TransferRecord /\ tx.memo \in Nat /\ flows[f] \in FlowRecord /\ clock \in Nat
        /\ flows[f].fee \in Nat /\ flows[f].retries \in 0 .. NRetries /\ CleanFlow(flows[f])
    BY Typed
  <1>2. /\ recovery \subseteq TransferRecord /\ OnePerMemo(recovery) /\ saved_fee \in Nat
        /\ outcome \in Seq(Outcome)
    BY ListTyped
  <1>3. NRetries \in 1 .. NRetries
    BY Constants
  <1>4. flows[f].reply.value \in Nat
    BY <1>1 DEF FlowRecord, ReplyRecord
  <1>5. CASE OnSuccess(f)
    <2>1. flows[f].call = "transfer" /\ Complete(f, tx, flows[f].retries) /\ UNCHANGED << ledger, clock, faults, requests >>
      BY <1>5 DEF OnSuccess, OnTransfer, Replied
    <2>2. flows[f].retries \in 1 .. NRetries
      BY <1>1, <2>1, Constants DEF CleanFlow
    <2> QED
      BY <2>1, <2>2, CompleteKeeps DEF OwnMemo
  <1>6. CASE OnUnknown(f)
    <2>1. /\ flows[f].call = "transfer" /\ UNCHANGED << ledger, clock, faults, requests >>
          /\ Retry(f, flows[f].fee, tx, flows[f].retries - 1, recovery) /\ saved_fee' = saved_fee
      BY <1>6 DEF OnUnknown, OnTransfer, Replied
    <2>2. flows[f].retries - 1 \in 0 .. NRetries
      BY <1>1, <2>1, Constants DEF CleanFlow
    <2> QED
      BY <1>1, <1>2, <2>1, <2>2, RetryKeeps DEF OwnMemo
  <1>7. CASE OnWrongFee(f)
    <2>1. flows[f].call = "transfer" /\ UNCHANGED << ledger, clock, faults, requests >>
      BY <1>7 DEF OnWrongFee, OnTransfer, Replied
    <2>2. CASE flows[f].reply.value \in {0, flows[f].fee}
      <3>1. /\ flows' = [flows EXCEPT ![f].call = "minting_account", ![f].reply = NoReply]
            /\ UNCHANGED << recovery, balance, saved_fee, credits, outcome >>
        BY <1>7, <2>2 DEF OnWrongFee
      <3>2. PICK r : r = [flows[f] EXCEPT !.call = "minting_account", !.reply = NoReply]
        OBVIOUS
      <3>3. flows' = [flows EXCEPT ![f] = r]
        BY <3>1, <3>2
      <3>4. NoReply \in ReplyRecord
        BY DEF NoReply, ReplyRecord
      <3>5. /\ r \in FlowRecord /\ r.call = "minting_account" /\ r.tx = tx /\ r.queue = flows[f].queue
            /\ r.retries = flows[f].retries
        BY <1>1, <3>2, <3>4 DEF FlowRecord, Query
      <3>6. r.retries > 0
        BY <1>1, <2>1, <3>5 DEF CleanFlow
      <3>7. recovery' \subseteq TransferRecord /\ OnePerMemo(recovery') /\ \A m : Lists(recovery', m) => Lists(recovery, m)
        BY <1>2, <3>1 DEF Lists
      <3> QED
        BY <1>1, <1>2, <2>1, <3>1, <3>3, <3>5, <3>6, <3>7, GoOnKeeps DEF NoCredit, OwnMemo
    <2>3. CASE flows[f].reply.value \notin {0, flows[f].fee}
      <3>1. UpdateConfigAndRetry(f, flows[f].reply.value, flows[f].retries - 1)
        BY <1>7, <2>3 DEF OnWrongFee
      <3> QED
        BY <1>4, <2>1, <3>1, UpdateConfigKeeps
    <2> QED
      BY <2>2, <2>3
  <1>8. CASE OnRejected(f)
    <2>1. flows[f].call = "transfer" /\ Reject(f, tx) /\ UNCHANGED << ledger, clock, faults, requests >>
      BY <1>8 DEF OnRejected, OnTransfer, Replied
    <2> QED
      BY <2>1, RejectKeeps DEF OwnMemo
  <1>9. CASE OnMintingAccount(f)
    <2>1. /\ flows[f].call = "minting_account" /\ UNCHANGED << ledger, clock, faults, requests >>
          /\ UpdateConfigAndRetry(f, flows[f].fee, flows[f].retries - 1)
      BY <1>9 DEF OnMintingAccount, Replied
    <2> QED
      BY <1>1, <2>1, UpdateConfigKeeps
  <1>10. CASE OnInterimBalance(f)
    <2>1. /\ flows[f].call = "interim_balance" /\ UNCHANGED << ledger, clock, faults, requests >>
          /\ RecoverOldTx(f, tx, flows[f].reply.value)
      BY <1>10 DEF OnInterimBalance, Replied
    <2>2. OwnMemo(flows[f])
      BY <2>1 DEF OwnMemo
    <2>3. CASE Reject(f, tx)
      BY <2>1, <2>2, <2>3, RejectKeeps
    <2>4. CASE Complete(f, tx, NRetries)
      BY <1>3, <2>1, <2>2, <2>4, CompleteKeeps
    <2>5. CASE /\ flows' = [flows EXCEPT ![f] = Send(f, Renew(tx, clock), NRetries, TRUE)]
               /\ UNCHANGED << recovery, balance, saved_fee, credits, outcome >>
      <3>1. Renew(tx, clock) \in TransferRecord /\ Renew(tx, clock).memo = tx.memo
        BY <1>1, TransferTypes
      <3>2. PICK r : r = Send(f, Renew(tx, clock), NRetries, TRUE)
        OBVIOUS
      <3>3. NRetries \in 0 .. NRetries /\ NRetries > 0
        BY Constants
      <3>4. /\ r \in FlowRecord /\ r.call = "transfer" /\ r.tx = Renew(tx, clock) /\ r.retries = NRetries
            /\ r.queue = flows[f].queue
        BY <1>1, <3>1, <3>2, <3>3, SendFlow
      <3>5. recovery' \subseteq TransferRecord /\ OnePerMemo(recovery') /\ \A m : Lists(recovery', m) => Lists(recovery, m)
        BY <1>2, <2>5 DEF Lists
      <3> QED
        BY <1>2, <2>1, <2>2, <2>5, <3>1, <3>2, <3>3, <3>4, <3>5, GoOnKeeps DEF NoCredit
    <2> QED
      BY <2>1, <2>3, <2>4, <2>5 DEF RecoverOldTx
  <1>11. CASE OnQueryFailed(f)
    <2>1. /\ flows[f].call \in Query /\ NoCredit
          /\ UNCHANGED << recovery, saved_fee, ledger, clock, faults, requests >>
      BY <1>11 DEF OnQueryFailed, Replied
    <2>2. /\ recovery' \subseteq TransferRecord /\ OnePerMemo(recovery') /\ saved_fee' \in Nat
          /\ \A m : Lists(recovery', m) => Lists(recovery, m)
      BY <1>2, <2>1 DEF Lists
    <2>3. CreditsAtMost(tx.memo) /\ credits' = credits
      BY <2>1, NoCreditIsNone
    <2>4. CASE flows[f].call = "deposit_balance"
      <3>1. flows' = [flows EXCEPT ![f] = Idle] /\ UNCHANGED outcome
        BY <1>11, <2>4 DEF OnQueryFailed
      <3>2. CleanFlow(Idle) /\ \A m : ~ Holds(Idle, m)
        BY IdleFlow DEF Holds
      <3> QED
        BY <1>2, <2>1, <2>2, <2>3, <3>1, <3>2, MessageKeeps, LedgerStays
    <2>5. CASE flows[f].call # "deposit_balance"
      <3>1. \E result \in Outcome : Return(f, flows[f].fee, tx.memo, result)
        BY <1>11, <2>5 DEF OnQueryFailed, Outcome
      <3>2. OwnMemo(flows[f])
        BY <2>1, <2>5 DEF OwnMemo, Query
      <3> QED
        BY <1>1, <2>1, <2>2, <2>3, <3>1, <3>2, EndKeeps
    <2> QED
      BY <2>4, <2>5
  <1> QED
    BY <1>5, <1>6, <1>7, <1>8, <1>9, <1>10, <1>11 DEF Continue

\* The call of a method that begins a transfer: its memo is new.
LEMMA BeginKeeps ==
  ASSUME TerminalInv, NEW f \in Flow, flows[f].call \in {"None", "deposit_balance"},
         NEW tx \in TransferRecord, tx.memo = Len(requests) + 1, Begin(f, tx), balance' \in Nat
  PROVE  TerminalInv'
  <1>1. /\ flows[f] \in FlowRecord /\ flows[f].queue = {} /\ clock \in Nat /\ tx.fee \in Nat
    BY Typed DEF CleanFlow, TransferRecord
  <1>2. PICK n : n = [Send(f, tx, NRetries, FALSE) EXCEPT !.fee = tx.fee]
    OBVIOUS
  <1>3. NRetries > 0
    BY Constants
  <1>6. n \in FlowRecord /\ n.call = "transfer" /\ n.tx = tx /\ n.queue = {} /\ n.retries = NRetries
    <2>1. NoReply \in ReplyRecord /\ NRetries \in 0 .. NRetries
      BY Constants DEF NoReply, ReplyRecord
    <2> QED
      BY <1>1, <1>2, <2>1 DEF Send, FlowRecord
  <1>7. CleanFlow(n)
    BY <1>3, <1>6 DEF CleanFlow
  <1>8. /\ flows' = [flows EXCEPT ![f] = n] /\ requests' = Append(requests, tx)
        /\ credits' = Append(credits, << >>) /\ outcome' = Append(outcome, "Pending")
        /\ UNCHANGED << recovery, saved_fee, ledger, clock, faults >>
    BY <1>2 DEF Begin
  <1>9. /\ requests \in Seq(TransferRecord) /\ credits \in Seq(Seq(Nat)) /\ outcome \in Seq(Outcome)
        /\ Len(credits) = Len(requests) /\ Len(outcome) = Len(requests)
    BY DEF TerminalInv, HistoryInv
  <1>10. HistoryInv'
    <2>1. << >> \in Seq(Nat) /\ "Pending" \in Outcome
      BY DEF Outcome
    <2> QED
      BY <1>8, <1>9, <2>1 DEF HistoryInv
  <1>11. CanisterInv'
    <2>1. flows' \in [Flow -> FlowRecord] /\ (\A g \in Flow : CleanFlow(flows[g]))'
      BY <1>7, <1>8, OneFlowMoves
    <2> QED
      BY <1>8, <2>1 DEF TerminalInv, CanisterInv
  <1>12. flows'[f] = n /\ \A g \in Flow \ {f} : flows'[g] = flows[g]
    BY <1>7, <1>8, OneFlowMoves
  <1>13. /\ \A m \in Nat : (Lists(recovery, m) \/ \E g \in Flow : Holds(flows[g], m))
                             => m \in DOMAIN requests /\ credits[m] = << >>
         /\ \A g, h \in Flow, m \in Nat : Holds(flows[g], m) /\ Holds(flows[h], m) => g = h
         /\ \A g \in Flow, m \in Nat : Holds(flows[g], m) => ~ Lists(recovery, m)
         /\ \A m \in DOMAIN credits : Len(credits[m]) <= 1
    BY HeldByHolds DEF TerminalInv, OwnerInv, Live, Listed, Lists
  <1>14. PICK l \in Nat : l = Len(requests)
    BY <1>9
  <1>15. /\ DOMAIN requests = 1 .. l /\ DOMAIN credits = 1 .. l
         /\ DOMAIN requests' = 1 .. (l + 1) /\ DOMAIN credits' = 1 .. (l + 1)
         /\ credits'[l + 1] = << >> /\ \A m \in 1 .. l : credits'[m] = credits[m]
    BY <1>8, <1>9, <1>14
  <1>16. \A m : Holds(n, m) <=> m = l + 1
    BY <1>6, <1>14 DEF Holds, OwnMemo
  <1>17. \A m \in Nat : (Lists(recovery, m) \/ \E g \in Flow : Holds(flows[g], m)) => m \in 1 .. l /\ m # l + 1
    BY <1>13, <1>15
  <1>18. \A g \in Flow \ {f}, m \in Nat : Holds(flows'[g], m) => Holds(flows[g], m) /\ m # l + 1
    BY <1>12, <1>17
  <1>19. \A m \in Nat : Holds(flows'[f], m) <=> m = l + 1
    BY <1>12, <1>16
  <1>20. \A g, h \in Flow, m \in Nat : Holds(flows'[g], m) /\ Holds(flows'[h], m) => g = h
    BY <1>13, <1>18, <1>19
  <1>21. \A g \in Flow, m \in Nat : Holds(flows'[g], m) => ~ Lists(recovery', m)
    BY <1>8, <1>13, <1>17, <1>18, <1>19
  <1>22. \A m \in Nat : Lists(recovery', m) \/ (\E g \in Flow : Holds(flows'[g], m))
           => m \in DOMAIN requests' /\ credits'[m] = << >>
    <2> SUFFICES ASSUME NEW m \in Nat, Lists(recovery', m) \/ \E g \in Flow : Holds(flows'[g], m)
                 PROVE  m \in DOMAIN requests' /\ credits'[m] = << >>
      OBVIOUS
    <2>1. CASE m = l + 1
      BY <1>15, <2>1
    <2>2. CASE m # l + 1
      <3>1. Lists(recovery, m) \/ \E g \in Flow : Holds(flows[g], m)
        BY <1>8, <1>18, <1>19, <2>2
      <3>2. m \in 1 .. l /\ credits[m] = << >>
        BY <1>13, <1>15, <3>1
      <3> QED
        BY <1>15, <3>2
    <2> QED
      BY <2>1, <2>2
  <1>23. \A m \in DOMAIN credits' : Len(credits'[m]) <= 1
    <2>1. Len(<< >>) = 0
      OBVIOUS
    <2>2. \A m \in 1 .. (l + 1) : m = l + 1 \/ m \in 1 .. l
      OBVIOUS
    <2> QED
      BY <1>13, <1>15, <2>1, <2>2
  <1>24. OwnerInv'
    <2>1. \A g \in Flow : \A m : HeldBy(g, m)' <=> Holds(flows'[g], m)
      BY DEF HeldBy, Holds, OwnMemo
    <2>2. \A m : Listed(m)' <=> Lists(recovery', m)
      BY DEF Listed, Lists
    <2>3. \A m : Live(m)' <=> Lists(recovery', m) \/ \E g \in Flow : Holds(flows'[g], m)
      BY <2>1, <2>2 DEF Live
    <2> QED
      BY <1>20, <1>21, <1>22, <1>23, <2>1, <2>2, <2>3 DEF OwnerInv
  <1> QED
    BY <1>8, <1>10, <1>11, <1>24, LedgerStays DEF TerminalInv

LEMMA DepositKeeps ==
  ASSUME TerminalInv, NEW f \in Flow, NEW amount \in Amounts, Deposit(f, amount) \/ Withdraw(f, amount)
  PROVE  TerminalInv'
  <1>1. amount \in Nat /\ saved_fee \in Nat /\ clock \in Nat /\ balance \in Nat
    BY Typed, ListTyped, Constants
  <1>2. PICK next \in Nat : next = Len(requests) + 1
    BY DEF TerminalInv, HistoryInv
  <1>3. PICK operation \in Operation : Begin(f, New(operation, amount))
    BY DEF Deposit, Withdraw, Operation
  <1>4. New(operation, amount) \in TransferRecord /\ New(operation, amount).memo = Len(requests) + 1
    <2>1. New(operation, amount) = NewTransfer(operation, amount, saved_fee, clock, next)
      BY <1>2 DEF New
    <2>2. /\ NewTransfer(operation, amount, saved_fee, clock, next) \in TransferRecord
          /\ NewTransfer(operation, amount, saved_fee, clock, next).memo = next
      BY <1>1, NewTransferType
    <2> QED
      BY <1>2, <2>1, <2>2
  <1>5. flows[f].call = "None"
    BY DEF Deposit, Withdraw, Busy
  <1>6. balance' \in Nat
    BY <1>1 DEF Deposit, Withdraw
  <1> QED
    BY <1>3, <1>4, <1>5, <1>6, BeginKeeps

\* A step of a flow after which it has no transfer
LEMMA EmptyKeeps ==
  ASSUME TerminalInv, NEW f \in Flow, flows[f].call \in {"None", "deposit_balance"},
         NEW n, n \in FlowRecord, n.call \in {"None", "deposit_balance"}, n.queue = {},
         flows' = [flows EXCEPT ![f] = n],
         UNCHANGED << recovery, balance, saved_fee, ledger, clock, faults, history >>
  PROVE  TerminalInv'
  <1>1. CleanFlow(n) /\ \A m : ~ Holds(n, m)
    BY DEF CleanFlow, Holds, OwnMemo
  <1>2. CreditsAtMost(0) /\ credits' = credits
    BY NoCreditIsNone DEF NoCredit, history
  <1>3. LedgerInv' /\ requests' = requests
    BY LedgerStays DEF history
  <1>4. /\ recovery' \subseteq TransferRecord /\ OnePerMemo(recovery') /\ saved_fee' \in Nat
        /\ outcome' \in Seq(Outcome) /\ Len(outcome') = Len(outcome)
        /\ \A m : Lists(recovery', m) => Lists(recovery, m)
    BY ListTyped DEF Lists, history
  <1> QED
    BY <1>1, <1>2, <1>3, <1>4, MessageKeeps

LEMMA DepositAllKeeps ==
  ASSUME TerminalInv, NEW f \in Flow, DepositAll(f) \/ OnDepositBalance(f)
  PROVE  TerminalInv'
  <1>1. flows[f].call \in {"None", "deposit_balance"}
    BY DEF DepositAll, OnDepositBalance, Busy, Replied
  <1>2. saved_fee \in Nat
    BY ListTyped
  <1>3. CASE DepositAll(f)
    <2>1. PICK n : n = [Idle EXCEPT !.call = "deposit_balance", !.fee = saved_fee]
      OBVIOUS
    <2>2. n \in FlowRecord /\ n.call = "deposit_balance" /\ n.queue = {}
      BY <1>2, <2>1, IdleFlow DEF FlowRecord, Query
    <2> QED
      BY <1>1, <1>3, <2>1, <2>2, EmptyKeeps DEF DepositAll
  <1>4. CASE OnDepositBalance(f)
    <2>1. PICK tx : tx = NewTransfer("CreditOnSuccess", flows[f].reply.value, flows[f].fee,
                                      clock, Len(requests) + 1)
      OBVIOUS
    <2>2. tx \in TransferRecord /\ tx.memo = Len(requests) + 1
      <3>1. flows[f].reply.value \in Nat /\ flows[f].fee \in Nat /\ clock \in Nat
        BY Typed DEF FlowRecord, ReplyRecord
      <3>2. PICK next \in Nat : next = Len(requests) + 1
        BY DEF TerminalInv, HistoryInv
      <3> QED
        <4>1. "CreditOnSuccess" \in Operation
          BY DEF Operation
        <4>2. tx = NewTransfer("CreditOnSuccess", flows[f].reply.value, flows[f].fee, clock, next)
          BY <2>1, <3>2
        <4>3. tx \in TransferRecord /\ tx.memo = next
          <5>1. PICK op, value, fee : op = "CreditOnSuccess" /\ value = flows[f].reply.value /\ fee = flows[f].fee
            OBVIOUS
          <5>2. tx = NewTransfer(op, value, fee, clock, next)
            BY <4>2, <5>1
          <5>3. op \in Operation /\ value \in Nat /\ fee \in Nat /\ clock \in Nat
            BY <3>1, <4>1, <5>1
          <5>4. /\ NewTransfer(op, value, fee, clock, next) \in TransferRecord
                /\ NewTransfer(op, value, fee, clock, next).memo = next
            BY <5>3, NewTransferType
          <5> QED
            BY <5>2, <5>4
        <4> QED
          BY <3>2, <4>3
    <2>3. CASE Begin(f, tx) /\ UNCHANGED balance
      <3>1. balance' \in Nat
        BY <2>3, Typed
      <3> QED
        BY <1>1, <2>2, <2>3, <3>1, BeginKeeps
    <2>4. CASE /\ flows' = [flows EXCEPT ![f] = Idle]
               /\ UNCHANGED << recovery, balance, saved_fee, ledger, clock, faults, history >>
      BY <1>1, <2>4, IdleFlow, EmptyKeeps
    <2> QED
      BY <1>4, <2>1, <2>3, <2>4 DEF OnDepositBalance
  <1> QED
    BY <1>3, <1>4

\* recover_all takes the list: its transfers go to the flow.
LEMMA RecoverAllKeeps ==
  ASSUME TerminalInv, NEW f \in Flow, RecoverAll(f)
  PROVE  TerminalInv'
  <1>1. /\ recovery \subseteq TransferRecord /\ OnePerMemo(recovery) /\ saved_fee \in Nat
        /\ outcome \in Seq(Outcome)
    BY ListTyped
  <1>2. /\ flows[f] \in FlowRecord /\ flows[f].call = "None" /\ flows[f].queue = {} /\ clock \in Nat
        /\ CleanFlow(flows[f]) /\ flows \in [Flow -> FlowRecord]
    BY Typed DEF RecoverAll, Busy, CleanFlow
  <1>3. /\ recovery' = {} /\ UNCHANGED << balance, saved_fee, ledger, clock, faults, requests, credits >>
    BY DEF RecoverAll, Taken
  <1>4. PICK late \in SUBSET recovery :
          /\ outcome' = [m \in DOMAIN outcome |->
               IF \E t \in late : t.memo = m THEN "TooOld" ELSE outcome[m]]
          /\ IF recovery = late
             THEN UNCHANGED flows
             ELSE \E t \in recovery \ late :
                    flows' = [flows EXCEPT ![f] =
                      [Recover(f, t) EXCEPT !.fee = saved_fee, !.queue = recovery \ (late \cup {t})]]
    BY DEF RecoverAll
  <1>5. outcome' \in Seq(Outcome) /\ Len(outcome') = Len(outcome)
    <2>1. \A m \in DOMAIN outcome : outcome[m] \in Outcome
      BY <1>1
    <2>2. outcome' \in [DOMAIN outcome -> Outcome]
      BY <1>4, <2>1 DEF Outcome
    <2> QED
      BY <1>1, <2>2, SameLength
  <1>6. PICK n : /\ flows' = [flows EXCEPT ![f] = n] /\ CleanFlow(n)
                 /\ \A m : Holds(n, m) => Lists(recovery, m)
    <2>1. CASE recovery = late
      <3>1. flows' = [flows EXCEPT ![f] = flows[f]]
        BY <1>2, <1>4, <2>1
      <3>2. \A m : ~ Holds(flows[f], m)
        BY <1>2 DEF Holds, OwnMemo
      <3> QED
        BY <1>2, <3>1, <3>2
    <2>2. CASE recovery # late
      <3>1. PICK t \in recovery \ late :
              flows' = [flows EXCEPT ![f] =
                [Recover(f, t) EXCEPT !.fee = saved_fee, !.queue = recovery \ (late \cup {t})]]
        BY <1>4, <2>2
      <3>2. PICK n : n = [Recover(f, t) EXCEPT !.fee = saved_fee, !.queue = recovery \ (late \cup {t})]
        OBVIOUS
      <3>3. /\ Recover(f, t) \in FlowRecord /\ Recover(f, t).call \in {"transfer", "interim_balance"}
            /\ Recover(f, t).tx = t
            /\ Recover(f, t).call = "transfer" => Recover(f, t).retries = NRetries
        BY <1>1, <1>2, RecoverFlow
      <3>4. /\ n \in FlowRecord /\ n.call \in {"transfer", "interim_balance"} /\ n.tx = t
            /\ n.queue = recovery \ (late \cup {t})
            /\ n.call = "transfer" => n.retries = NRetries
        BY <1>1, <3>2, <3>3 DEF FlowRecord
      <3>5. CleanFlow(n)
        <4>1. n.call \in {"transfer", "minting_account"} => n.retries > 0
          BY <3>4, Constants
        <4>2. \A u, v \in n.queue : u.memo = v.memo => u = v
          BY <1>1, <3>4 DEF OnePerMemo
        <4>3. \A u \in n.queue : u.memo # n.tx.memo
          BY <1>1, <3>4 DEF OnePerMemo
        <4> QED
          BY <3>4, <4>1, <4>2, <4>3 DEF CleanFlow
      <3>6. \A m : Holds(n, m) => Lists(recovery, m)
        BY <3>4 DEF Holds, Lists
      <3> QED
        BY <3>1, <3>2, <3>5, <3>6
    <2> QED
      BY <2>1, <2>2
  <1>7. CreditsAtMost(0) /\ credits' = credits
    BY <1>3, NoCreditIsNone DEF NoCredit
  <1>8. /\ \A m : ~ Lists(recovery', m)
        /\ recovery' \subseteq TransferRecord /\ OnePerMemo(recovery')
    BY <1>3 DEF Lists, OnePerMemo
  <1> QED
    BY <1>1, <1>3, <1>5, <1>6, <1>7, <1>8, MessageKeeps, LedgerStays

\* A step that leaves flows and history alone, and no more in the list.
LEMMA OwnersStay ==
  ASSUME TerminalInv, UNCHANGED << flows, history >>, \A m : Lists(recovery', m) => Lists(recovery, m)
  PROVE  OwnerInv' /\ HistoryInv'
  <1>1. \A f \in Flow : \A m : HeldBy(f, m)' <=> HeldBy(f, m)
    BY DEF HeldBy
  <1>2. \A m : Listed(m)' => Listed(m)
    BY DEF Listed, Lists
  <1>3. \A m : Live(m)' => Live(m)
    BY <1>1, <1>2 DEF Live
  <1>4. OwnerInv'
    <2>1. requests' = requests /\ credits' = credits
      BY DEF history
    <2> QED
      BY <1>1, <1>2, <1>3, <2>1 DEF TerminalInv, OwnerInv
  <1> QED
    BY <1>4 DEF TerminalInv, HistoryInv, history

LEMMA SetFeeKeeps ==
  ASSUME TerminalInv, NEW fee \in AdminFees, SetFee(fee)
  PROVE  TerminalInv'
  <1>1. fee \in Nat
    BY Constants
  <1>2. /\ recovery' \in Rewritten(fee) /\ saved_fee' = fee
        /\ UNCHANGED << flows, balance, ledger, clock, faults, history >>
    BY DEF SetFee
  <1>3. recovery' \subseteq TransferRecord /\ OnePerMemo(recovery') /\ \A m : Lists(recovery', m) => Lists(recovery, m)
    BY <1>1, <1>2, RewrittenList
  <1>4. CanisterInv'
    <2>1. (\A f \in Flow : CleanFlow(flows[f]))'
      BY <1>2 DEF TerminalInv, CanisterInv, CleanFlow, OwnMemo
    <2> QED
      BY <1>1, <1>2, <1>3, <2>1 DEF TerminalInv, CanisterInv, OnePerMemo
  <1> QED
    BY <1>2, <1>3, <1>4, OwnersStay, LedgerStays DEF TerminalInv

\* The fee of the ledger, and time
LEMMA EnvironmentKeeps ==
  ASSUME TerminalInv, LedgerFeeChanges \/ Tick
  PROVE  TerminalInv'
  <1>1. UNCHANGED << flows, recovery, balance, saved_fee, history, funds, faults >>
    BY DEF LedgerFeeChanges, Tick, canister, ledger
  <1>2. LedgerInv'
    <2>1. /\ ledger_fee \in Nat /\ clock \in Nat /\ clock >= DedupPeriod /\ faults \in Nat
          /\ \A a \in DOMAIN funds : a \in Account /\ funds[a] \in Nat
      BY DEF TerminalInv, LedgerInv
    <2>2. ledger_fee' \in Nat /\ clock' \in Nat /\ clock' >= DedupPeriod
      BY <2>1, Constants DEF LedgerFeeChanges, Tick, ledger
    <2> QED
      BY <1>1, <2>1, <2>2 DEF LedgerInv
  <1>3. CanisterInv'
    BY <1>1 DEF TerminalInv, CanisterInv, CleanFlow, OwnMemo
  <1> QED
    BY <1>1, <1>2, <1>3, OwnersStay DEF TerminalInv

\* The accounts stay in credit when the ledger executes what it accepts.
LEMMA ExecutedFunds ==
  ASSUME TerminalInv, NEW f \in Flow, Executed(f)
  PROVE  \A a \in DOMAIN funds' : a \in Account /\ funds'[a] \in Nat
  <1> DEFINE tx == flows[f].tx
  <1>1. tx \in TransferRecord
    BY Typed
  <1>2. \A a \in DOMAIN funds : a \in Account /\ funds[a] \in Nat
    BY DEF TerminalInv, LedgerInv
  <1>3. CASE Answer(tx).kind = "Ok"
    <2>1. funds' = [a \in DOMAIN funds \cup {To(tx)} |->
                     BalanceOf(a) + (IF a = To(tx) THEN AmountMinusFee(tx) ELSE 0)
                                  - (IF a = From(tx) THEN AmountMinusFee(tx) + tx.fee ELSE 0)]
      BY <1>3 DEF Executed, Execute
    <2>2. ~ BalanceOf(From(tx)) < AmountMinusFee(tx) + tx.fee
      BY <1>3 DEF Answer, Reply
    <2>3. To(tx) \in Account
      BY <1>1 DEF To, Own, Account, TransferRecord, Stage
    <2>4. AmountMinusFee(tx) \in Nat /\ tx.fee \in Nat /\ \A a : BalanceOf(a) \in Nat
      BY <1>1, <1>2, TransferTypes DEF BalanceOf, TransferRecord
    <2>5. PICK moved \in Nat, fee \in Nat, from \in {From(tx)}, to \in {To(tx)} :
            moved = AmountMinusFee(tx) /\ fee = tx.fee
      BY <2>4
    <2>6. ASSUME NEW a \in DOMAIN funds' PROVE a \in Account /\ funds'[a] \in Nat
      <3>1. a \in Account
        BY <1>2, <2>1, <2>3, <2>6
      <3>2. funds'[a] = BalanceOf(a) + (IF a = to THEN moved ELSE 0) - (IF a = from THEN moved + fee ELSE 0)
        BY <2>1, <2>5, <2>6
      <3>3. BalanceOf(a) \in Nat /\ (a = from => ~ BalanceOf(a) < moved + fee)
        BY <2>2, <2>4, <2>5
      <3> QED
        BY <3>1, <3>2, <3>3
    <2> QED
      BY <2>6
  <1>4. CASE Answer(tx).kind # "Ok"
    BY <1>2, <1>4 DEF Executed
  <1> QED
    BY <1>3, <1>4

\* A reply for flow f
LEMMA HandledKeeps ==
  ASSUME TerminalInv, NEW f \in Flow, NEW call, NEW reply \in ReplyRecord, Handled(f, call, reply), LedgerInv'
  PROVE  TerminalInv'
  <1>1. flows[f] \in FlowRecord /\ CleanFlow(flows[f])
    BY Typed
  <1>2. PICK n : n = [flows[f] EXCEPT !.reply = reply]
    OBVIOUS
  <1>3. /\ n \in FlowRecord /\ n.call = flows[f].call /\ n.tx = flows[f].tx /\ n.queue = flows[f].queue
        /\ n.retries = flows[f].retries
    BY <1>1, <1>2 DEF FlowRecord
  <1>4. CleanFlow(n) /\ \A m : Holds(n, m) <=> Holds(flows[f], m)
    BY <1>1, <1>3 DEF CleanFlow, Holds, OwnMemo
  <1>5. /\ flows' = [flows EXCEPT ![f] = n]
        /\ UNCHANGED << recovery, balance, saved_fee, ledger_fee, clock, history >>
    BY <1>2 DEF Handled
  <1>6. CreditsAtMost(0) /\ credits' = credits /\ requests' = requests /\ outcome' = outcome
    BY <1>5, NoCreditIsNone DEF NoCredit, history
  <1>7. /\ recovery \subseteq TransferRecord /\ OnePerMemo(recovery) /\ saved_fee \in Nat
        /\ outcome \in Seq(Outcome) /\ \A m \in Nat : Holds(flows[f], m) => ~ Lists(recovery, m)
    BY ListTyped
  <1> QED
    BY <1>4, <1>5, <1>6, <1>7, MessageKeeps

LEMMA LedgerStepKeeps ==
  ASSUME TerminalInv, NEW f \in Flow, LedgerStep(f)
  PROVE  TerminalInv'
  <1>1. /\ ledger_fee \in Nat /\ clock \in Nat /\ clock >= DedupPeriod /\ faults \in Nat
        /\ \A a \in DOMAIN funds : a \in Account /\ funds[a] \in Nat
    BY DEF TerminalInv, LedgerInv
  <1>2. \A a : BalanceOf(a) \in Nat
    BY <1>1 DEF BalanceOf
  <1>3. \A call, reply : Handled(f, call, reply) => ledger_fee' = ledger_fee /\ clock' = clock
    BY DEF Handled
  <1>4. Fault => faults' \in Nat
    BY <1>1 DEF Fault
  <1>5. Answer(flows[f].tx) \in ReplyRecord
    BY <1>1 DEF Answer, Reply, ReplyRecord
  <1>6. CASE LedgerTransfers(f)
    <2>1. Handled(f, "transfer", Answer(flows[f].tx)) /\ Executed(f) /\ faults' = faults
      BY <1>6 DEF LedgerTransfers
    <2>2. LedgerInv'
      BY <1>1, <1>3, <2>1, ExecutedFunds DEF LedgerInv
    <2> QED
      BY <1>5, <2>1, <2>2, HandledKeeps
  <1>7. CASE ReplyLost(f)
    <2>1. Handled(f, "transfer", Reply("MaybeFailed", 0)) /\ Executed(f) /\ Fault
      BY <1>7 DEF ReplyLost
    <2>2. LedgerInv'
      BY <1>1, <1>3, <1>4, <2>1, ExecutedFunds DEF LedgerInv
    <2>3. Reply("MaybeFailed", 0) \in ReplyRecord
      BY DEF Reply, ReplyRecord
    <2> QED
      BY <2>1, <2>2, <2>3, HandledKeeps
  <1>8. CASE CallLost(f)
    <2>1. PICK kind \in {"MaybeFailed", "Unavailable"} : Handled(f, "transfer", Reply(kind, 0))
      BY <1>8 DEF CallLost
    <2>2. LedgerInv'
      BY <1>1, <1>3, <1>4, <1>8, <2>1 DEF LedgerInv, CallLost
    <2>3. Reply(kind, 0) \in ReplyRecord
      BY DEF Reply, ReplyRecord
    <2> QED
      BY <2>1, <2>2, <2>3, HandledKeeps
  <1>9. CASE LedgerReads(f)
    <2>1. PICK q \in Query :
            Handled(f, q, Reply("Value",
              CASE q = "deposit_balance" -> BalanceOf(Own("deposit"))
                [] q = "interim_balance" -> BalanceOf(flows[f].tx.interim)
                [] q = "minting_account" -> 0))
      BY <1>9 DEF LedgerReads
    <2>2. PICK value \in Nat : Handled(f, q, Reply("Value", value))
      BY <1>2, <2>1 DEF Query
    <2>3. LedgerInv'
      BY <1>1, <1>3, <1>9, <2>2 DEF LedgerInv, LedgerReads
    <2>4. Reply("Value", value) \in ReplyRecord
      BY <2>2 DEF Reply, ReplyRecord
    <2> QED
      BY <2>2, <2>3, <2>4, HandledKeeps
  <1>10. CASE QueryLost(f)
    <2>1. PICK q \in FailingQueries : Handled(f, q, Reply("MaybeFailed", 0))
      BY <1>10 DEF QueryLost
    <2>2. LedgerInv'
      BY <1>1, <1>3, <1>4, <1>10, <2>1 DEF LedgerInv, QueryLost
    <2>3. Reply("MaybeFailed", 0) \in ReplyRecord
      BY DEF Reply, ReplyRecord
    <2> QED
      BY <2>1, <2>2, <2>3, HandledKeeps
  <1> QED
    BY <1>6, <1>7, <1>8, <1>9, <1>10 DEF LedgerStep

-----------------------------------------------------------------------------
(* The theorems *)

LEMMA TerminalInvInit == Init => TerminalInv
  <1> SUFFICES ASSUME Init PROVE TerminalInv
    OBVIOUS
  <1>1. flows = [f \in Flow |-> Idle] /\ recovery = {}
    BY DEF Init
  <1>2. CanisterInv
    BY <1>1, IdleFlow, Constants DEF Init, CanisterInv
  <1>3. LedgerInv
    <2>1. \A a \in DOMAIN funds : a \in Account /\ funds[a] \in Nat
      BY Constants DEF Init, Own, Account
    <2>2. ledger_fee \in Nat /\ clock \in Nat /\ clock >= DedupPeriod /\ faults \in Nat
      BY Constants DEF Init
    <2> QED
      BY <2>1, <2>2 DEF LedgerInv
  <1>4. HistoryInv
    BY DEF Init, HistoryInv
  <1>5. OwnerInv
    <2>1. \A m : ~ Live(m)
      BY <1>1, IdleFlow DEF Live, Listed, HeldBy
    <2>2. \A f \in Flow, m \in Nat : ~ HeldBy(f, m)
      BY <2>1 DEF Live
    <2>3. DOMAIN credits = {}
      BY DEF Init
    <2> QED
      BY <2>1, <2>2, <2>3 DEF OwnerInv
  <1> QED
    BY <1>2, <1>3, <1>4, <1>5 DEF TerminalInv

LEMMA TerminalInvNext == TerminalInv /\ [Next]_vars => TerminalInv'
  <1> SUFFICES ASSUME TerminalInv, [Next]_vars PROVE TerminalInv'
    OBVIOUS
  <1>1. CASE \E f \in Flow, amount \in Amounts : Deposit(f, amount) \/ Withdraw(f, amount)
    BY <1>1, DepositKeeps
  <1>2. CASE \E f \in Flow : DepositAll(f)
    BY <1>2, DepositAllKeeps
  <1>3. CASE \E f \in Flow : RecoverAll(f)
    BY <1>3, RecoverAllKeeps
  <1>4. CASE \E f \in Flow : Continue(f)
    BY <1>4, ContinueKeeps, DepositAllKeeps
  <1>5. CASE \E f \in Flow : LedgerStep(f)
    BY <1>5, LedgerStepKeeps
  <1>6. CASE \E fee \in AdminFees : SetFee(fee)
    BY <1>6, SetFeeKeeps
  <1>7. CASE LedgerFeeChanges \/ Tick
    BY <1>7, EnvironmentKeeps
  <1>8. CASE UNCHANGED vars
    <2>1. UNCHANGED << flows, recovery, balance, saved_fee, ledger, clock, faults, history >>
      BY <1>8 DEF vars, canister
    <2>2. CanisterInv'
      BY <2>1 DEF TerminalInv, CanisterInv, CleanFlow, OwnMemo
    <2> QED
      BY <2>1, <2>2, OwnersStay, LedgerStays DEF TerminalInv
  <1> QED
    BY <1>1, <1>2, <1>3, <1>4, <1>5, <1>6, <1>7, <1>8 DEF Next

(***************************************************************************)
(* The inductive invariant of the terminal: memos tell the transfers of    *)
(* the list and of all flows apart, and one that is under way or kept has  *)
(* not been credited.                                                      *)
(***************************************************************************)
THEOREM TerminalInvariant == Spec => []TerminalInv
  BY TerminalInvInit, TerminalInvNext, PTL DEF Spec

(***************************************************************************)
(* Types: the user's balance and every account of the ledger stay in       *)
(* credit, and a flow that awaits the ledger has a retry left, whatever    *)
(* the order of calls, replies and losses.                                 *)
(***************************************************************************)
THEOREM TerminalTypes == Spec => []TypeOK
  <1>1. TerminalInv => TypeOK
    <2> SUFFICES ASSUME TerminalInv PROVE TypeOK
      OBVIOUS
    <2>1. \A f \in Flow :
            /\ flows[f].call \in Query \cup {"None", "transfer"}
            /\ flows[f].tx \in TransferRecord
            /\ flows[f].recovering \in BOOLEAN
            /\ flows[f].retries \in 0 .. NRetries
            /\ flows[f].call \in {"transfer", "minting_account"} => flows[f].retries > 0
            /\ \A t \in flows[f].queue : t \in TransferRecord
            /\ flows[f].fee \in Nat
      <3> SUFFICES ASSUME NEW f \in Flow
                   PROVE  /\ flows[f].call \in Query \cup {"None", "transfer"}
                          /\ flows[f].tx \in TransferRecord
                          /\ flows[f].recovering \in BOOLEAN
                          /\ flows[f].retries \in 0 .. NRetries
                          /\ flows[f].call \in {"transfer", "minting_account"} => flows[f].retries > 0
                          /\ \A t \in flows[f].queue : t \in TransferRecord
                          /\ flows[f].fee \in Nat
        OBVIOUS
      <3>1. CleanFlow(flows[f])
        BY Typed
      <3>2. flows[f].recovering \in BOOLEAN
        BY <3>1 DEF CleanFlow, FlowRecord
      <3> QED
        BY <3>1, <3>2 DEF CleanFlow, FlowRecord
    <2>2. DOMAIN credits = DOMAIN requests /\ DOMAIN outcome = DOMAIN requests
      <3>1. /\ requests \in Seq(TransferRecord) /\ credits \in Seq(Seq(Nat)) /\ outcome \in Seq(Outcome)
            /\ Len(credits) = Len(requests) /\ Len(outcome) = Len(requests)
        BY DEF TerminalInv, HistoryInv
      <3> QED
        BY <3>1
    <2>3. /\ \A t \in recovery : t \in TransferRecord
          /\ balance \in Nat /\ saved_fee \in Nat
          /\ \A a \in DOMAIN funds : a \in Account /\ funds[a] \in Nat
      BY DEF TerminalInv, CanisterInv, LedgerInv
    <2> QED
      BY <2>1, <2>2, <2>3 DEF TypeOK
  <1> QED
    BY <1>1, TerminalInvariant, PTL

\* A set with at most one element
LEMMA AtMostOne ==
  ASSUME NEW S, \A x, y \in S : x = y
  PROVE  Cardinality(S) \in Nat /\ Cardinality(S) <= 1 /\ (S = {} => Cardinality(S) = 0)
  <1>1. CASE S = {}
    BY <1>1, FS_EmptySet
  <1>2. CASE S # {}
    <2>1. PICK x : x \in S
      BY <1>2
    <2>2. S = {x}
      BY <2>1
    <2>3. Cardinality(S) = 1
      BY <2>2, FS_Singleton
    <2> QED
      BY <1>2, <2>3
  <1> QED
    BY <1>1, <1>2

(***************************************************************************)
(* A transfer has one owner, the recovery list or one flow, for any number *)
(* of concurrent deposits, withdrawals and recover_all calls: no two of    *)
(* them ever retry the same transfer.                                      *)
(***************************************************************************)
THEOREM TransfersHaveOneOwner == Spec => []OneOwner
  <1>1. TerminalInv => OneOwner
    <2> SUFFICES ASSUME TerminalInv, NEW m \in DOMAIN requests
                 PROVE  /\ Cardinality({t \in recovery : t.memo = m}) <= 1
                        /\ Cardinality({f \in Flow : HeldBy(f, m)}) + (IF Listed(m) THEN 1 ELSE 0) <= 1
      BY DEF OneOwner
    <2>1. m \in Nat
      BY DEF TerminalInv, HistoryInv
    <2>2. \A t, u \in {t \in recovery : t.memo = m} : t = u
      BY DEF TerminalInv, CanisterInv
    <2>3. \A f, g \in {f \in Flow : HeldBy(f, m)} : f = g
      BY <2>1 DEF TerminalInv, OwnerInv
    <2>4. Listed(m) => {f \in Flow : HeldBy(f, m)} = {}
      BY <2>1 DEF TerminalInv, OwnerInv
    <2>5. Cardinality({t \in recovery : t.memo = m}) <= 1
      BY <2>2, AtMostOne
    <2>6. PICK S : S = {f \in Flow : HeldBy(f, m)}
      OBVIOUS
    <2>7. Cardinality(S) \in Nat /\ Cardinality(S) <= 1 /\ (S = {} => Cardinality(S) = 0)
      BY <2>3, <2>6, AtMostOne
    <2>8. Cardinality(S) + (IF Listed(m) THEN 1 ELSE 0) <= 1
      BY <2>4, <2>6, <2>7
    <2> QED
      BY <2>5, <2>6, <2>8
  <1> QED
    BY <1>1, TerminalInvariant, PTL

\* No request is credited a second time.
CreditedOnce == \A m \in DOMAIN requests : Len(credits[m]) <= 1

(***************************************************************************)
(* Nothing is credited twice, and nothing that has been credited is still  *)
(* in the list or under way: the part of ExactlyOnce that depends on the   *)
(* canister alone, for any fees and any amounts.                           *)
(***************************************************************************)
THEOREM NothingIsCreditedTwice ==
  Spec => [](CreditedOnce /\ \A m \in DOMAIN requests : Live(m) => credits[m] = << >>)
  <1>1. TerminalInv => CreditedOnce /\ \A m \in DOMAIN requests : Live(m) => credits[m] = << >>
    <2> SUFFICES ASSUME TerminalInv, NEW m \in DOMAIN requests
                 PROVE  Len(credits[m]) <= 1 /\ (Live(m) => credits[m] = << >>)
      BY DEF CreditedOnce
    <2>1. m \in Nat /\ m \in DOMAIN credits
      BY DEF TerminalInv, HistoryInv
    <2> QED
      BY <2>1 DEF TerminalInv, OwnerInv
  <1> QED
    BY <1>1, TerminalInvariant, PTL
=============================================================================
