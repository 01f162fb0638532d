---------------------------- MODULE MockHandlers ----------------------------
(***************************************************************************)
(* Cycles in the mock of the Internet Computer that ic-kit gives to unit   *)
(* tests (ic-kit/src/mock.rs and handler.rs).  A test assembles a pipeline *)
(* of call handlers -- methods made of cycle operations, closures, and     *)
(* canisters with a context of their own -- and the code under test sends  *)
(* cycles through it with call_raw.                                        *)
(*                                                                         *)
(* A panic ends the test unless the test catches it (should_panic tests,   *)
(* catch_unwind, a context shared through the thread); what it leaves      *)
(* behind is part of the model.                                            *)
(***************************************************************************)
EXTENDS Integers, Sequences, FiniteSets, SequencesExt

CONSTANTS
  CanisterId,      \* the principal of the Canister handler
  OtherId,         \* another principal
  MethodNames,     \* names of methods
  CallArgs,        \* encoded arguments
  Amounts,         \* amounts of cycles, 0 included
  StartBalance,    \* the balance of a new context (100 TC in the code)
  MaxAtoms,        \* bound: cycle operations of one method
  MaxHandlers,     \* bound: handlers in the pipeline
  MaxBuild,        \* bound: calls of the builders
  MaxCalls,        \* bound: calls recorded by one watcher
  MaxHeld,         \* bound: cycles put into the contexts, and sent with calls that panic
  Closures,        \* the closures of the tests
  Unset            \* None

ASSUME MockAssumption ==
  Amounts \cup {StartBalance, MaxHandlers, MaxCalls} \subseteq Nat

VARIABLES
  balance, cycles, refunded,   \* of the injected context
  handlers,                    \* the pipeline
  draft,                       \* the Method under construction
  canister,                    \* the Canister under construction
  context,                     \* the context inside the Canister
  calls,                       \* watcher.calls
  built,                       \* builder calls made
  ledger                       \* ghost: what happened to the cycles

mockVars == << balance, cycles, refunded, handlers, draft, canister, context,
               calls, built, ledger >>

\* No amount in the instance is larger: msg_cycles_accept(u64::MAX).
CyclesMAX == 1000

\* MethodAtom.
MethodAtom ==
  {[op |-> "ConsumeAll", amount |-> 0]}
    \cup [op : {"Consume", "Refund"}, amount : Amounts]

\* struct Method, and the closure of a RawHandler, which gets the context: it
\* accepts cycles or sets the cycles of the message or the balance, and it may
\* panic after that.
Method == [kind : {"method"}, name : MethodNames \cup {Unset},
           atoms : Seq(MethodAtom), expected_args : CallArgs \cup {Unset},
           expected_cycles : Amounts \cup {Unset}, response : BOOLEAN]
RawHandler == [kind : {"raw"}, op : {"Accept", "SetCycles", "SetBalance"},
               amount : Amounts, panics : BOOLEAN]

ASSUME ClosuresAssumption == Closures \subseteq RawHandler

NewMethod == [kind |-> "method", name |-> Unset, atoms |-> << >>,
              expected_args |-> Unset, expected_cycles |-> Unset, response |-> FALSE]

\* Canister::new.
NewCanister == [kind |-> "canister", methods |-> << >>, default |-> Unset]
NewContext == [balance |-> StartBalance, cycles |-> 0]

\* MockContext::new, injected.  The history in the ledger: the cycles that were
\* put into the two contexts, less those that handlers without a context have
\* accepted; the balance as it would be without the calls since watch(); the
\* cycles of the calls that panicked; and whether the closure of a call since
\* watch() has set more cycles than were sent.
MockInit ==
  /\ balance = StartBalance /\ cycles = 0 /\ refunded = 0
  /\ handlers = << >>
  /\ draft = NewMethod /\ canister = NewCanister /\ context = NewContext
  /\ calls = << >> /\ built = 0
  /\ ledger = [held |-> 2 * StartBalance, unwatched |-> StartBalance, risked |-> 0, set |-> FALSE]

----------------------------------------------------------------------------
(***************************************************************************)
(* Builders.  A panic drops the value that is being built.                 *)
(***************************************************************************)
BuildStep ==
  /\ built < MaxBuild
  /\ built' = built + 1
  /\ UNCHANGED << balance, cycles, refunded, calls >>

Build == BuildStep /\ UNCHANGED << context, ledger >>

BuildMethod(panics, m) ==
  /\ Build
  /\ draft' = IF panics THEN NewMethod ELSE m
  /\ UNCHANGED << handlers, canister >>

Name(n) == BuildMethod(draft.name # Unset, [draft EXCEPT !.name = n])

AddAtom(a) ==
  /\ Len(draft.atoms) < MaxAtoms
  /\ BuildMethod(FALSE, [draft EXCEPT !.atoms = Append(@, a)])

CyclesConsumeAll == AddAtom([op |-> "ConsumeAll", amount |-> 0])
CyclesConsume(n) == AddAtom([op |-> "Consume", amount |-> n])
CyclesRefund(n) == AddAtom([op |-> "Refund", amount |-> n])

ExpectArguments(a) ==
  BuildMethod(draft.expected_args # Unset, [draft EXCEPT !.expected_args = a])

ExpectCycles(n) ==
  BuildMethod(draft.expected_cycles # Unset, [draft EXCEPT !.expected_cycles = n])

Response == BuildMethod(draft.response, [draft EXCEPT !.response = TRUE])

\* Canister::method and Canister::or, with the draft or with a closure.
CanisterMethod(n, h) ==
  /\ Build
  /\ canister' = IF n \in DOMAIN canister.methods
                 THEN NewCanister
                 ELSE [canister EXCEPT !.methods =
                        [k \in DOMAIN @ \cup {n} |-> IF k = n THEN h ELSE @[k]]]
  /\ draft' = NewMethod
  /\ UNCHANGED handlers

Or(h) ==
  /\ Build
  /\ canister' = IF canister.default # Unset
                 THEN NewCanister ELSE [canister EXCEPT !.default = h]
  /\ draft' = NewMethod
  /\ UNCHANGED handlers

\* with_handler and use_handler; one Canister, the one whose context is
\* modelled, goes into the pipeline at most once.
UseHandler(h) ==
  /\ Len(handlers) < MaxHandlers
  /\ handlers' = Append(handlers, h)
  /\ draft' = NewMethod

UseMethod == Build /\ UseHandler(draft) /\ UNCHANGED canister

UseRaw(h) == Build /\ UseHandler(h) /\ UNCHANGED canister

\* The canister may have been given another balance, Canister::with_balance.
UseCanister(n) ==
  /\ BuildStep
  /\ \A i \in DOMAIN handlers : handlers[i].kind # "canister"
  /\ UseHandler(canister)
  /\ canister' = NewCanister
  /\ context' = [context EXCEPT !.balance = n]
  /\ ledger' = [ledger EXCEPT !.held = @ - context.balance + n]
  /\ ledger'.held <= MaxHeld

\* clear_handlers.  A Canister that is dropped takes its context with it.
ClearHandlers ==
  /\ handlers # << >>
  /\ handlers' = << >>
  /\ context' = NewContext
  /\ ledger' = [ledger EXCEPT
                  !.held = @ + StartBalance - context.balance - context.cycles]
  /\ ledger'.held <= MaxHeld
  /\ UNCHANGED << balance, cycles, refunded, draft, canister, calls, built >>

----------------------------------------------------------------------------
(***************************************************************************)
(* CallHandler::accept and CallHandler::perform.                           *)
(***************************************************************************)
\* msg_cycles_accept on a context.
Accepted(available, n) == IF n > available THEN available ELSE n

\* Mutant: what is accepted is not limited by what is available.
AcceptUnbounded(c, n) ==
  [c EXCEPT !.cycles = @ - Accepted(c.cycles, n), !.balance = @ + n]

Accept(c, n) ==
  [c EXCEPT !.cycles = @ - Accepted(c.cycles, n), !.balance = @ + Accepted(c.cycles, n)]

MethodAccepts(h, method) ==
  h.kind = "raw" \/ h.name = Unset \/ h.name = method

Accepts(h, id, method) ==
  IF h.kind = "canister"
  THEN /\ id = CanisterId
       /\ \/ h.default # Unset
          \/ method \in DOMAIN h.methods /\ MethodAccepts(h.methods[method], method)
  ELSE MethodAccepts(h, method)

\* One atom of Method::perform on [ctx, panicked].
PerformAtom(s, atom) ==
  LET available == s.ctx.cycles IN
  CASE s.panicked -> s
    [] ~s.panicked /\ atom.op = "ConsumeAll" ->
         [s EXCEPT !.ctx = Accept(@, CyclesMAX)]
    [] ~s.panicked /\ atom.op = "Consume" ->
         [s EXCEPT !.ctx = Accept(@, atom.amount)]
    [] ~s.panicked /\ atom.op = "Refund" ->
         IF atom.amount > available
         THEN [s EXCEPT !.panicked = TRUE]
         ELSE [s EXCEPT !.ctx = Accept(@, available - atom.amount)]

PerformMethod(m, ctx, args) ==
  LET wrong == \/ m.expected_cycles \notin {Unset, ctx.cycles}
               \/ m.expected_args \notin {Unset, args}
  IN  FoldLeft(PerformAtom, [ctx |-> ctx, panicked |-> wrong],
               IF wrong THEN << >> ELSE m.atoms)

PerformRaw(h, ctx) ==
  [ctx |-> CASE h.op = "Accept" -> Accept(ctx, h.amount)
             [] h.op = "SetCycles" -> [ctx EXCEPT !.cycles = h.amount]
             [] h.op = "SetBalance" -> [ctx EXCEPT !.balance = h.amount],
   panicked |-> h.panics]

Perform(h, ctx, args) ==
  IF h.kind = "raw" THEN PerformRaw(h, ctx) ELSE PerformMethod(h, ctx, args)

\* What a closure puts into the context, and the most cycles that a call of n
\* cycles has on its way
Put(h, ctx) ==
  CASE h.kind = "raw" /\ h.op = "SetCycles" -> h.amount - ctx.cycles
    [] h.kind = "raw" /\ h.op = "SetBalance" -> h.amount - ctx.balance
    [] OTHER -> 0

Carried(h, n) ==
  IF h.kind = "raw" /\ h.op = "SetCycles" /\ h.amount > n THEN h.amount ELSE n

\* The handler Canister::perform runs, whether or not it accepts the call.
Dispatch(c, method) ==
  IF method \in DOMAIN c.methods THEN c.methods[method] ELSE c.default

\* Canister::perform: the cycles of the message are set on the canister's own
\* context, whatever a call that panicked has left there.
CanisterContext(c, n) == [c EXCEPT !.cycles = n]

\* The context a handler outside of a Canister makes for itself.
DefaultContext(n) == [balance |-> StartBalance, cycles |-> n]

----------------------------------------------------------------------------
(***************************************************************************)
(* The context under test.  A value under construction is not in its reach *)
(* and the builders do not look at it: it moves when none is half-built.   *)
(***************************************************************************)
Assembled == draft = NewMethod /\ canister = NewCanister

\* MockContext::msg_cycles_accept.
MsgCyclesAccept(n) ==
  LET ctx == Accept([balance |-> balance, cycles |-> cycles], n) IN
  /\ cycles > 0
  /\ balance' = ctx.balance /\ cycles' = ctx.cycles
  /\ ledger' = [ledger EXCEPT !.unwatched = @ + Accepted(cycles, n)]
  /\ UNCHANGED << refunded, handlers, draft, canister, context, calls, built >>

\* WatcherCall::cycles_consumed and Watcher::cycles_consumed.
CyclesConsumed(watched) ==
  FoldLeft(LAMBDA sum, c : sum + (c.cycles_sent - c.cycles_refunded), 0, watched)

\* The handlers before the first that accepts the call are skipped.
Accepting(id, method) ==
  {i \in DOMAIN handlers :
     /\ Accepts(handlers[i], id, method)
     /\ \A j \in 1 .. i - 1 : ~Accepts(handlers[j], id, method)}

\* A call that panics has taken its cycles along.
Panicked(carried) ==
  /\ ledger.risked + carried <= MaxHeld
  /\ ledger' = [ledger EXCEPT !.risked = @ + carried]

\* call_raw without a handler: the cycles are deducted before the panic.
CallUnhandled(id, method, n) ==
  /\ n > 0 /\ n <= balance
  /\ Accepting(id, method) = {}
  /\ balance' = balance - n
  /\ Panicked(n)
  /\ UNCHANGED << cycles, refunded, handlers, draft, canister, context, calls, built >>

\* Mutant: the refund is recorded and not added to the balance.
ReplyKeepsRefund(id, method, args, n, refund) ==
  /\ refunded' = refund
  /\ balance' = balance - n
  /\ calls' = Append(calls, [canister_id |-> id, method_name |-> method,
                             args_raw |-> args, cycles_sent |-> n,
                             cycles_refunded |-> refund])

\* The end of call_raw, once the handler has returned.
Reply(id, method, args, n, refund) ==
  /\ refunded' = refund
  /\ balance' = balance - n + refund
  /\ calls' = Append(calls, [canister_id |-> id, method_name |-> method,
                             args_raw |-> args, cycles_sent |-> n,
                             cycles_refunded |-> refund])

\* A handler that panics: the cycles stay deducted, the call is not recorded.
NoReply(n) ==
  /\ balance' = balance - n
  /\ UNCHANGED << refunded, calls >>

\* call_raw to a handler that is not a Canister; what it accepts is gone with
\* the context it made.  A call of more cycles than the balance panics and
\* changes nothing.
CallHandler(id, method, args, n, i) ==
  LET h == handlers[i]
      after == Perform(h, DefaultContext(n), args)
  IN
  /\ h.kind # "canister"
  /\ IF after.panicked
     THEN NoReply(n) /\ Panicked(n)
     ELSE /\ Reply(id, method, args, n, after.ctx.cycles)
          /\ ledger' = [ledger EXCEPT !.held = @ - (n - after.ctx.cycles),
                                      !.set = @ \/ Carried(h, n) > n]
          /\ ledger'.held <= MaxHeld
  /\ UNCHANGED context

\* Mutant: the canister's context keeps what the call has given back.
CallCanisterKeepsRefund(id, method, args, n, i) ==
  LET h == Dispatch(handlers[i], method)
      after == Perform(h, CanisterContext(context, n), args)
  IN
  /\ handlers[i].kind = "canister"
  /\ ~ after.panicked
  /\ Reply(id, method, args, n, after.ctx.cycles)
  /\ context' = after.ctx
  /\ ledger' = [ledger EXCEPT !.held = @ + Put(h, CanisterContext(context, n))]

\* call_raw to the Canister.
CallCanister(id, method, args, n, i) ==
  LET h == Dispatch(handlers[i], method)
      ctx == CanisterContext(context, n)
      after == Perform(h, ctx, args)
      put == [ledger EXCEPT !.held = @ + Put(h, ctx)]
  IN
  /\ handlers[i].kind = "canister"
  /\ put.held <= MaxHeld
  /\ IF after.panicked
     THEN /\ NoReply(n)
          /\ context' = after.ctx
          /\ ledger.risked + Carried(h, n) <= MaxHeld
          /\ ledger' = [put EXCEPT !.risked = @ + Carried(h, n)]
     ELSE /\ Reply(id, method, args, n, after.ctx.cycles)
          /\ context' = [after.ctx EXCEPT !.cycles = 0]
          /\ ledger' = [put EXCEPT !.set = @ \/ Carried(h, n) > n]

CallRaw(id, method, args, n) ==
  /\ n <= balance
  /\ Len(calls) < MaxCalls
  /\ \E i \in Accepting(id, method) :
       CallHandler(id, method, args, n, i) \/ CallCanister(id, method, args, n, i)
  /\ UNCHANGED << cycles, handlers, draft, canister, built >>

\* MockContext::watch.
Watch ==
  /\ calls # << >>
  /\ calls' = << >>
  /\ ledger' = [ledger EXCEPT !.unwatched = balance, !.set = FALSE]
  /\ UNCHANGED << balance, cycles, refunded, handlers, draft, canister, context, built >>

\* update_balance and update_msg_cycles, with_balance and with_msg_cycles.
UpdateBalance(n) ==
  /\ n # balance
  /\ balance' = n
  /\ ledger' = [ledger EXCEPT !.held = @ - balance + n, !.unwatched = n + CyclesConsumed(calls)]
  /\ ledger'.held <= MaxHeld
  /\ UNCHANGED << cycles, refunded, handlers, draft, canister, context, calls, built >>

UpdateMsgCycles(n) ==
  /\ n # cycles
  /\ cycles' = n
  /\ ledger' = [ledger EXCEPT !.held = @ - cycles + n]
  /\ ledger'.held <= MaxHeld
  /\ UNCHANGED << balance, refunded, handlers, draft, canister, context, calls, built >>

BuildNext ==
  \/ CyclesConsumeAll \/ Response
  \/ \E n \in Amounts : CyclesConsume(n) \/ CyclesRefund(n) \/ ExpectCycles(n)
  \/ \E a \in CallArgs : ExpectArguments(a)
  \/ \E n \in MethodNames : Name(n)
  \/ \E h \in Closures \cup {draft} :
       Or(h) \/ \E n \in MethodNames : CanisterMethod(n, h)
  \/ \E h \in Closures : UseRaw(h)
  \/ \E n \in Amounts : UseCanister(n)
  \/ UseMethod \/ (Assembled /\ ClearHandlers)

ContextNext ==
  \/ \E n \in Amounts : MsgCyclesAccept(n) \/ UpdateBalance(n) \/ UpdateMsgCycles(n)
  \/ \E id \in {CanisterId, OtherId}, method \in MethodNames, n \in Amounts :
       \/ CallUnhandled(id, method, n)
       \/ \E args \in CallArgs : CallRaw(id, method, args, n)
  \/ Watch

MockNext == BuildNext \/ (Assembled /\ ContextNext)

MockSpec == MockInit /\ [][MockNext]_mockVars

----------------------------------------------------------------------------
\* Every field of the two contexts, of the pipeline and of the values under
\* construction has its type.
MockTypeOK ==
  /\ {balance, cycles, refunded, context.balance, context.cycles, built} \subseteq Nat
  /\ draft \in Method
  /\ Len(handlers) <= MaxHandlers
  /\ \A h \in Range(handlers) \cup {canister} :
       IF h.kind = "canister"
       THEN /\ h.default \in Method \cup RawHandler \cup {Unset}
            /\ \A n \in DOMAIN h.methods : h.methods[n] \in Method \cup RawHandler
       ELSE h \in Method \cup RawHandler
  /\ Len(calls) <= MaxCalls

Lost == ledger.held - (balance + cycles + context.balance + context.cycles)

\* No pipeline makes cycles, and none get lost between the caller's context and
\* the one of a Canister handler but those of calls that panicked, at most once
\* each: what the canister does not accept comes back, and the next call does
\* not give back what a panic has left in the canister's context (mock.rs,
\* call_raw and msg_cycles_accept; handler.rs, Canister::perform).
CyclesConserved == 0 <= Lost /\ Lost <= ledger.risked

\* No call gives back more than it was sent, so the subtraction of u64 values
\* in WatcherCall::cycles_consumed does not wrap around, unless a closure has
\* set the cycles of the message to more than that.
RefundAtMostSent ==
  ~ ledger.set => \A i \in DOMAIN calls : calls[i].cycles_refunded <= calls[i].cycles_sent

Unexplained == ledger.unwatched - CyclesConsumed(calls) - balance

\* The balance is what it was at watch(), plus what was accepted or set since,
\* less what the watcher says was consumed; only calls that panicked, which the
\* watcher does not record, may have taken more.
WatcherExplainsBalance == 0 <= Unexplained /\ Unexplained <= ledger.risked

----------------------------------------------------------------------------
(***************************************************************************)
(* What makes CyclesConserved and the two properties of the watcher        *)
(* inductive: types, of the contexts, of the calls and of the handlers     *)
(* that a call runs, and that what a panic has left in the canister's      *)
(* context was also sent with a call that panicked.                        *)
(***************************************************************************)
Context == [balance : Nat, cycles : Nat]

Handler == Method \cup RawHandler

CanisterHandler ==
  [kind : {"canister"}, methods : UNION {[N -> Handler] : N \in SUBSET MethodNames},
   default : Handler \cup {Unset}]

Call == [canister_id : {CanisterId, OtherId}, method_name : MethodNames,
         args_raw : CallArgs, cycles_sent : Nat, cycles_refunded : Nat]

Ledger == [held : Int, unwatched : Int, risked : Nat, set : BOOLEAN]

MockInv ==
  /\ balance \in Nat /\ cycles \in Nat /\ refunded \in Nat /\ built \in Nat
  /\ context \in Context /\ ledger \in Ledger
  /\ draft \in Method /\ canister \in CanisterHandler
  /\ handlers \in Seq(Handler \cup CanisterHandler) /\ Len(handlers) <= MaxHandlers
  /\ calls \in Seq(Call) /\ Len(calls) <= MaxCalls
  /\ 0 <= Lost /\ Lost + context.cycles <= ledger.risked
  /\ RefundAtMostSent /\ WatcherExplainsBalance
=============================================================================
