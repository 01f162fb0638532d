------------------------------ MODULE Transfer ------------------------------
(***************************************************************************)
(* The transfers of ic-payments (transfer.rs), for one token and one user: *)
(* what a transfer moves, from where to where, and what follows it.        *)
(*                                                                         *)
(* A transfer is a deposit, one step from the user's deposit subaccount to *)
(* the canister's main account, or a withdrawal, two steps from the main   *)
(* account over an interim account to the user's account.  The accounts    *)
(* follow from that; the minting account is none of them.                  *)
(***************************************************************************)
EXTENDS Naturals

\* TransferType: SingleStep, DoubleStep(First, _), DoubleStep(Second, _)
Stage == {"Single", "First", "Second"}

Operation == {"CreditOnSuccess", "CreditOnError"}

\* The subaccount of an interim account is the hash id(), here what it hashes.
Account ==
  [kind : {"main", "deposit", "user", "interim"}, amount : Nat, created_at : Nat]

Own(kind) == [kind |-> kind, amount |-> 0, created_at |-> 0]

TransferRecord ==
  [operation : Operation, stage : Stage, interim : Account, amount : Nat,
   fee : Nat, created_at : Nat, memo : Nat]

\* id(): source and target, which the operation determines, amount and time.
\* Stage, fee and memo are not in it.
Id(tx) ==
  [operation |-> tx.operation, amount |-> tx.amount, created_at |-> tx.created_at]

From(tx) ==
  CASE tx.stage = "Single" -> Own("deposit")
    [] tx.stage = "First" -> Own("main")
    [] tx.stage = "Second" -> tx.interim

To(tx) ==
  CASE tx.stage = "Single" -> Own("main")
    [] tx.stage = "First" -> tx.interim
    [] tx.stage = "Second" -> Own("user")

EffectiveFee(tx) == IF tx.stage = "First" THEN 2 * tx.fee ELSE tx.fee

AmountMinusFee(tx) == IF tx.amount > tx.fee THEN tx.amount - tx.fee ELSE 0

\* validate(): source and target always differ here, and an amount that is
\* more than the fee leaves something to receive.
Valid(tx) == tx.amount > EffectiveFee(tx)

WithFee(tx, fee) == [tx EXCEPT !.fee = fee]

ResetTs(tx) == [tx EXCEPT !.created_at = 0]

\* Mutant: the time of the first attempt is kept.
NotRenewed(tx, now) == tx

Renew(tx, now) == [tx EXCEPT !.created_at = now]

\* next_step() of the first step of a double-step transfer
NextStep(tx, now) ==
  [tx EXCEPT !.stage = "Second", !.amount = AmountMinusFee(tx), !.created_at = now]

\* Transfer::new with the operation of deposit(), or double_step() of withdraw()
NewTransfer(operation, amount, fee, now, memo) ==
  [operation |-> operation,
   stage |-> IF operation = "CreditOnSuccess" THEN "Single" ELSE "First",
   interim |-> [kind |-> "interim", amount |-> amount, created_at |-> now],
   amount |-> amount, fee |-> fee, created_at |-> now, memo |-> memo]
=============================================================================
