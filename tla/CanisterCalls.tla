---------------------------- MODULE CanisterCalls ----------------------------
(***************************************************************************)
(* Inter-canister calls in unit tests.  On the host, the macros            *)
(* canister_call!, canister_notify! and virtual_canister_call! run the     *)
(* method of the callee in place: they switch the caller and the id of the *)
(* mock context, run it and switch back                                    *)
(* (ic-canister-macros/src/canister_call.rs and derive.rs).  The state of  *)
(* a canister is found by the id in the context (ic-storage).              *)
(***************************************************************************)
EXTENDS Integers, Sequences, FiniteSets

CONSTANTS
  Canisters,   \* principals of canisters that derive Canister
  Virtual,     \* principals that only have responders
  Test,        \* the principal and the id of the context before any call
  MaxDepth     \* bound: calls that are open at a time

ASSUME CallsAssumption == MaxDepth \in Nat

VARIABLES
  who,         \* MockContext::caller
  id,          \* MockContext::id
  open,        \* the calls that are running, the innermost last
  store,       \* IcStorage: principals with a state, as a set
  wrote,       \* ghost: for each principal, the canisters that wrote its state
  responders,  \* __RESPONDERS: "answers" or "fails" for a principal
  registering, \* ghost: a call of a responder borrows the map
  unwound      \* a panic has left the context as it was

callVars == << who, id, open, store, wrote, responders, registering, unwound >>

Principals == Canisters \cup Virtual \cup {Test}

CallsInit ==
  /\ who = Test /\ id = Test
  /\ open = << >>
  /\ store = {} /\ wrote = [p \in Principals |-> {}]
  /\ responders = [v \in Virtual |-> "none"]
  /\ registering = FALSE /\ unwound = FALSE

\* Who is running: the callee of the innermost call, or the test.
Running == IF open = << >> THEN Test ELSE open[Len(open)].callee

Innermost == open[Len(open)]

\* The principal that should be in the context after n calls.
Actor(n) == IF n = 0 THEN Test ELSE open[n].actor

\* Canister::from_principal and init_instance: the id is the new canister's
\* while its state is made, and is put back.
FromPrincipal(c) ==
  /\ c \notin store
  /\ store' = store \cup {c}
  /\ UNCHANGED << who, id, open, wrote, responders, registering, unwound >>

\* The four macros, up to the call: `switches` is FALSE in
\* virtual_canister_notify!, which runs the responder as the caller.
OpenCall(callee, kind, switches) ==
  /\ Len(open) < MaxDepth
  /\ open' = Append(open, [callee |-> callee, kind |-> kind, caller |-> who, id |-> id,
                           actor |-> IF switches THEN callee ELSE Actor(Len(open))])
  /\ who' = IF switches THEN id ELSE who
  /\ id' = IF switches THEN callee ELSE id
  /\ UNCHANGED << store, wrote, responders, unwound >>

\* A method marked #[update] calls pre_update first, in the same context.
CanisterCall(c) ==
  /\ c \in store
  /\ OpenCall(c, "canister_call", TRUE) /\ UNCHANGED registering

CanisterNotify(c) ==
  /\ c \in store
  /\ OpenCall(c, "canister_notify", TRUE) /\ UNCHANGED registering

\* Arguments that do not encode end the call before the context is switched:
\* nothing happens.
VirtualCanisterCall(v) ==
  /\ responders[v] # "none"
  /\ OpenCall(v, "virtual_canister_call", TRUE)
  /\ registering' = TRUE

VirtualCanisterNotify(v) ==
  /\ responders[v] # "none"
  /\ OpenCall(v, "virtual_canister_notify", FALSE)
  /\ registering' = TRUE

\* Mutant: an error of the responder leaves before the context is put back.
RestoreUnlessError(frame, fails) ==
  IF fails THEN UNCHANGED << who, id >>
  ELSE who' = frame.caller /\ id' = frame.id

\* The context after the call, whatever the result was: `result?` comes after.
Restore(frame, fails) ==
  IF frame.kind = "virtual_canister_notify" THEN UNCHANGED << who, id >>
  ELSE who' = frame.caller /\ id' = frame.id

\* The method returns, or the responder answers or fails.
Return ==
  /\ open # << >>
  /\ open' = SubSeq(open, 1, Len(open) - 1)
  /\ Restore(Innermost, Innermost.callee \in Virtual /\ responders[Innermost.callee] = "fails")
  /\ registering' = (\E i \in 1 .. Len(open) - 1 : open[i].callee \in Virtual)
  /\ UNCHANGED << store, wrote, responders, unwound >>

\* A method or a responder looks for its state with State::get(), which goes
\* by the id in the context, and writes it.
StateGet ==
  /\ store' = store \cup {id}
  /\ wrote' = [wrote EXCEPT ![id] = @ \cup {Running}]
  /\ UNCHANGED << who, id, open, responders, registering, unwound >>

\* register_raw_virtual_responder, register_virtual_responder and
\* register_failing_virtual_responder.  While a responder runs the map is
\* borrowed, and the registration panics.
RegisterResponder(v, answer) ==
  /\ ~registering
  /\ responders' = [responders EXCEPT ![v] = answer]
  /\ UNCHANGED << who, id, open, store, wrote, registering, unwound >>

\* A panic in a method or a responder (there is no trap handler) unwinds to
\* the test, past the lines that put the context back.
Panic ==
  /\ open # << >>
  /\ open' = << >>
  /\ registering' = FALSE /\ unwound' = TRUE
  /\ UNCHANGED << who, id, store, wrote, responders >>

\* MockContext::new().inject() in the next test on the thread: the states and
\* the responders of the thread stay.
Reinject ==
  /\ unwound /\ open = << >>
  /\ who' = Test /\ id' = Test
  /\ unwound' = FALSE
  /\ UNCHANGED << open, store, wrote, responders, registering >>

CallsNext ==
  \/ ~unwound /\ ( \/ \E c \in Canisters : FromPrincipal(c) \/ CanisterCall(c) \/ CanisterNotify(c)
                   \/ \E v \in Virtual :
                        \/ VirtualCanisterCall(v) \/ VirtualCanisterNotify(v)
                        \/ \E a \in {"answers", "fails"} : RegisterResponder(v, a)
                   \/ Return \/ StateGet \/ Panic )
  \/ Reinject

CallsSpec == CallsInit /\ [][CallsNext]_callVars

----------------------------------------------------------------------------
\* The state and the calls have their types.
CallsTypeOK ==
  /\ {who, id} \subseteq Principals
  /\ store \subseteq Principals
  /\ wrote \in [Principals -> SUBSET Principals]
  /\ Len(open) <= MaxDepth

\* A method of a canister runs with its own id and with the canister that
\* called it as the caller, after any nesting of calls, notifications and
\* failing responders, and so no state is written by the method of another
\* canister.  At the end of all calls the test has its context back.  (A
\* responder that is notified runs as the canister that notifies it.)
CallIsolation ==
  /\ ~unwound => /\ id = Actor(Len(open))
                 /\ open = << >> => who = Test
                 /\ (open # << >> /\ Innermost.kind # "virtual_canister_notify") =>
                       who = Actor(Len(open) - 1)
  /\ \A p \in Principals : wrote[p] \subseteq {p} \cup Virtual

\* The caller that should be in the context after n calls: a responder that is
\* notified sees the caller of the canister that notifies it.
CallerAfter(n) ==
  IF n = 0 THEN Test
  ELSE IF open[n].kind = "virtual_canister_notify" THEN open[n].caller ELSE Actor(n - 1)

Frame == [callee : Principals, caller : Principals, id : Principals, actor : Principals,
          kind : {"canister_call", "canister_notify", "virtual_canister_call",
                  "virtual_canister_notify"}]

\* What makes CallIsolation inductive: every call that is open has saved the
\* context its caller runs in, so that whatever returns next restores it.
CallsInv ==
  /\ {who, id} \subseteq Principals /\ unwound \in BOOLEAN
  /\ wrote \in [Principals -> SUBSET Principals]
  /\ open \in Seq(Frame)
  /\ \A n \in DOMAIN open :
       /\ open[n].id = Actor(n - 1) /\ open[n].caller = CallerAfter(n - 1)
       /\ IF open[n].kind = "virtual_canister_notify"
          THEN open[n].callee \in Virtual /\ open[n].actor = Actor(n - 1)
          ELSE open[n].actor = open[n].callee
  /\ IF unwound THEN open = << >>
     ELSE id = Actor(Len(open)) /\ who = CallerAfter(Len(open))
  /\ \A p \in Principals : wrote[p] \subseteq {p} \cup Virtual
=============================================================================
