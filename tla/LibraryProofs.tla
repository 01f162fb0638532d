---------------------------- MODULE LibraryProofs ----------------------------
(***************************************************************************)
(* Proofs about the libraries a canister is written with, each for every   *)
(* value of its constants, and at the end about all of them as MCLibraries *)
(* composes them.                                                          *)
(***************************************************************************)
EXTENDS MCLibraries, LogCanisterProofs, SequenceTheorems, FiniteSetTheorems, WellFoundedInduction, TLAPS

-----------------------------------------------------------------------------
(* CanisterCalls *)

\* Before any call the test runs as itself.
LEMMA CallsInvInit == CallsInit => CallsInv
  <1> SUFFICES ASSUME CallsInit PROVE CallsInv
    OBVIOUS
  <1>1. Test \in Principals
    BY DEF Principals
  <1>2. open \in Seq(Frame) /\ Len(open) = 0 /\ DOMAIN open = {}
    BY DEF CallsInit
  <1>3. id = Actor(Len(open)) /\ who = CallerAfter(Len(open))
    BY <1>2 DEF CallsInit, Actor, CallerAfter
  <1> QED
    BY <1>1, <1>2, <1>3 DEF CallsInit, CallsInv

\* A macro that starts a call saves the context.
LEMMA OpenCallKeeps ==
  ASSUME CallsInv, ~ unwound, NEW callee \in Principals, NEW switches \in BOOLEAN,
         NEW kind \in {"canister_call", "canister_notify", "virtual_canister_call",
                       "virtual_canister_notify"},
         switches = (kind # "virtual_canister_notify"),
         ~ switches => callee \in Virtual,
         OpenCall(callee, kind, switches)
  PROVE  CallsInv'
  <1>0. PICK l \in Nat : l = Len(open)
    BY DEF CallsInv
  <1> DEFINE f == [callee |-> callee, kind |-> kind, caller |-> who, id |-> id,
                   actor |-> IF switches THEN callee ELSE Actor(l)]
  <1>1. /\ open \in Seq(Frame) /\ l \in Nat /\ id = Actor(l) /\ who = CallerAfter(l)
        /\ who \in Principals /\ id \in Principals
    BY <1>0 DEF CallsInv
  <1>2. f \in Frame
    BY <1>1 DEF Frame
  <1>3. /\ open' = Append(open, f) /\ UNCHANGED << wrote, unwound >>
        /\ who' = (IF switches THEN id ELSE who) /\ id' = IF switches THEN callee ELSE id
    BY <1>0 DEF OpenCall
  <1>f. /\ f.callee = callee /\ f.kind = kind /\ f.caller = who /\ f.id = id
        /\ f.actor = IF switches THEN callee ELSE Actor(l)
    OBVIOUS
  <1> HIDE DEF f
  <1>4. /\ open' \in Seq(Frame) /\ Len(open') = l + 1 /\ DOMAIN open' = 1 .. l + 1
        /\ DOMAIN open = 1 .. l
        /\ open'[l + 1] = f /\ \A n \in 1 .. l : open'[n] = open[n]
    BY <1>0, <1>1, <1>2, <1>3, AppendProperties
  <1>5. \A n \in 0 .. l : Actor(n)' = Actor(n) /\ CallerAfter(n)' = CallerAfter(n)
    <2>1. \A n \in 0 .. l : Actor(n)' = Actor(n)
      BY <1>1, <1>4 DEF Actor
    <2> TAKE n \in 0 .. l
    <2>2. n # 0 => n \in 1 .. l /\ n - 1 \in 0 .. l
      BY <1>1
    <2> QED
      BY <1>4, <2>1, <2>2 DEF CallerAfter
  <1>6. Actor(l + 1)' = f.actor /\ CallerAfter(l + 1)' = IF switches THEN Actor(l) ELSE who
    <2>1. l + 1 # 0 /\ (l + 1) - 1 = l /\ l \in 0 .. l
      BY <1>1
    <2> QED
      BY <1>4, <1>5, <1>f, <2>1 DEF Actor, CallerAfter
  <1>7. ASSUME NEW n \in DOMAIN open'
        PROVE  /\ open'[n].id = Actor(n - 1)' /\ open'[n].caller = CallerAfter(n - 1)'
               /\ IF open'[n].kind = "virtual_canister_notify"
                  THEN open'[n].callee \in Virtual /\ open'[n].actor = Actor(n - 1)'
                  ELSE open'[n].actor = open'[n].callee
    <2>1. CASE n \in 1 .. l
      <3>1. n - 1 \in 0 .. l
        BY <1>1, <2>1
      <3> QED
        BY <1>4, <1>5, <2>1, <3>1 DEF CallsInv
    <2>2. CASE n = l + 1
      <3>1. n - 1 = l /\ l \in 0 .. l
        BY <1>1, <2>2
      <3> QED
        BY <1>1, <1>4, <1>5, <1>f, <2>2, <3>1
    <2> QED
      BY <1>1, <1>4, <2>1, <2>2
  <1>8. id' = Actor(l + 1)' /\ who' = CallerAfter(l + 1)'
    BY <1>1, <1>3, <1>6, <1>f
  <1>9. who' \in Principals /\ id' \in Principals
    BY <1>1, <1>3
  <1> QED
    BY <1>3, <1>4, <1>7, <1>8, <1>9 DEF CallsInv

\* A call that returns puts the saved context back.
LEMMA ReturnKeeps ==
  ASSUME CallsInv, ~ unwound, Return
  PROVE  CallsInv'
  <1>0. PICK l \in Nat : l = Len(open)
    BY DEF CallsInv
  <1> DEFINE f == open[l]
  <1>1. /\ open \in Seq(Frame) /\ l \in Nat \ {0} /\ id = Actor(l) /\ who = CallerAfter(l)
        /\ DOMAIN open = 1 .. l /\ f \in Frame
    BY <1>0, EmptySeq DEF CallsInv, Return
  <1>2. /\ f.id = Actor(l - 1) /\ f.caller = CallerAfter(l - 1)
        /\ IF f.kind = "virtual_canister_notify" THEN f.actor = Actor(l - 1) ELSE f.actor = f.callee
    BY <1>1 DEF CallsInv
  <1>3. who' = CallerAfter(l - 1) /\ id' = Actor(l - 1) /\ UNCHANGED << wrote, unwound >>
    <2>1. CASE f.kind = "virtual_canister_notify"
      <3>1. UNCHANGED << who, id >>
        BY <1>0, <2>1 DEF Return, Restore, Innermost
      <3>2. Actor(l) = f.actor /\ CallerAfter(l) = f.caller
        BY <1>1, <2>1 DEF Actor, CallerAfter
      <3> QED
        BY <1>1, <1>2, <2>1, <3>1, <3>2 DEF Return
    <2>2. CASE f.kind # "virtual_canister_notify"
      BY <1>0, <1>2, <2>2 DEF Return, Restore, Innermost
    <2> QED
      BY <2>1, <2>2
  <1>4. open' = SubSeq(open, 1, l - 1)
    BY <1>0 DEF Return
  <1>p. who \in Principals /\ id \in Principals /\ f.caller \in Principals /\ f.id \in Principals
    BY <1>1 DEF CallsInv, Frame
  <1> HIDE DEF f
  <1>5. /\ open' \in Seq(Frame) /\ Len(open') = l - 1 /\ DOMAIN open' = 1 .. l - 1
        /\ \A n \in 1 .. l - 1 : open'[n] = open[n] /\ n \in DOMAIN open
    BY <1>1, <1>4, SubSeqProperties
  <1>6. \A n \in 0 .. l - 1 : Actor(n)' = Actor(n) /\ CallerAfter(n)' = CallerAfter(n)
    <2>1. \A n \in 0 .. l - 1 : Actor(n)' = Actor(n)
      BY <1>1, <1>5 DEF Actor
    <2> TAKE n \in 0 .. l - 1
    <2>2. n # 0 => n \in 1 .. l - 1 /\ n - 1 \in 0 .. l - 1
      BY <1>1
    <2> QED
      BY <1>5, <2>1, <2>2 DEF CallerAfter
  <1>7. ASSUME NEW n \in DOMAIN open'
        PROVE  /\ open'[n].id = Actor(n - 1)' /\ open'[n].caller = CallerAfter(n - 1)'
               /\ IF open'[n].kind = "virtual_canister_notify"
                  THEN open'[n].callee \in Virtual /\ open'[n].actor = Actor(n - 1)'
                  ELSE open'[n].actor = open'[n].callee
    <2>1. n - 1 \in 0 .. l - 1
      BY <1>1, <1>5
    <2> QED
      BY <1>5, <1>6, <2>1 DEF CallsInv
  <1>8. l - 1 \in 0 .. l - 1
    BY <1>1
  <1>9. who' \in Principals /\ id' \in Principals
    BY <1>2, <1>3, <1>p
  <1> QED
    BY <1>3, <1>5, <1>6, <1>7, <1>8, <1>9 DEF CallsInv

\* Every step of a test keeps the invariant.
LEMMA CallsInvNext == CallsInv /\ [CallsNext]_callVars => CallsInv'
  <1> SUFFICES ASSUME CallsInv, [CallsNext]_callVars PROVE CallsInv'
    OBVIOUS
  <1>1. ASSUME UNCHANGED << who, id, open, wrote, unwound >> PROVE CallsInv'
    BY <1>1 DEF CallsInv, Actor, CallerAfter
  <1>2. ASSUME NEW c \in Canisters, FromPrincipal(c) PROVE CallsInv'
    BY <1>1, <1>2 DEF FromPrincipal
  <1>3. ASSUME NEW c \in Canisters, ~ unwound, CanisterCall(c) \/ CanisterNotify(c) PROVE CallsInv'
    <2>1. c \in Principals
      BY DEF Principals
    <2> QED
      BY <1>3, <2>1, OpenCallKeeps DEF CanisterCall, CanisterNotify
  <1>4. ASSUME NEW v \in Virtual, ~ unwound, VirtualCanisterCall(v) \/ VirtualCanisterNotify(v)
        PROVE  CallsInv'
    <2>1. v \in Principals
      BY DEF Principals
    <2> QED
      BY <1>4, <2>1, OpenCallKeeps DEF VirtualCanisterCall, VirtualCanisterNotify
  <1>5. ASSUME NEW v \in Virtual, NEW a \in {"answers", "fails"}, RegisterResponder(v, a)
        PROVE  CallsInv'
    BY <1>1, <1>5 DEF RegisterResponder
  <1>6. ASSUME ~ unwound, StateGet PROVE CallsInv'
    <2>1. /\ wrote' = [wrote EXCEPT ![id] = @ \cup {Running}] /\ UNCHANGED << who, id, open, unwound >>
          /\ wrote \in [Principals -> SUBSET Principals] /\ id \in Principals
          /\ open \in Seq(Frame) /\ id = Actor(Len(open))
      BY <1>6 DEF StateGet, CallsInv
    <2>2. Running \in Principals /\ Running \in {id} \cup Virtual
      <3>1. CASE open = << >>
        BY <2>1, <3>1 DEF Running, Actor, Principals
      <3>2. CASE open # << >>
        <4>1. Len(open) \in DOMAIN open /\ Len(open) # 0 /\ open[Len(open)] \in Frame
          BY <2>1, <3>2, EmptySeq
        <4>2. Running = open[Len(open)].callee /\ id = open[Len(open)].actor
          BY <2>1, <3>2, <4>1 DEF Running, Actor
        <4> QED
          BY <4>1, <4>2 DEF CallsInv, Frame
      <3> QED
        BY <3>1, <3>2
    <2>3. /\ wrote' \in [Principals -> SUBSET Principals]
          /\ \A p \in Principals : wrote'[p] \subseteq {p} \cup Virtual
      BY <2>1, <2>2 DEF CallsInv
    <2> QED
      BY <2>1, <2>3 DEF CallsInv, Actor, CallerAfter
  <1>7. CASE Panic
    <2>1. open' = << >> /\ unwound' = TRUE /\ UNCHANGED << who, id, wrote >>
      BY <1>7 DEF Panic
    <2> QED
      BY <2>1 DEF CallsInv
  <1>8. CASE Reinject
    <2>1. open' = << >> /\ unwound' = FALSE /\ who' = Test /\ id' = Test /\ UNCHANGED wrote
      BY <1>8 DEF Reinject
    <2>2. Test \in Principals
      BY DEF Principals
    <2>3. open' \in Seq(Frame) /\ Len(open') = 0 /\ DOMAIN open' = {}
      BY <2>1
    <2>4. id' = Actor(Len(open))' /\ who' = CallerAfter(Len(open))'
      BY <2>1, <2>3 DEF Actor, CallerAfter
    <2> QED
      BY <2>1, <2>2, <2>3, <2>4 DEF CallsInv
  <1>9. CASE UNCHANGED callVars
    BY <1>1, <1>9 DEF callVars
  <1> QED
    BY <1>2, <1>3, <1>4, <1>5, <1>6, <1>7, <1>8, <1>9, ReturnKeeps DEF CallsNext

\* A method runs as itself and for its caller after any nesting of calls, and
\* no canister writes another one's state (canister_call!, canister_notify!,
\* virtual_canister_call! and virtual_canister_notify!).
THEOREM CallsAreIsolated == CallsSpec => []CallIsolation
  <1>1. CallsInv => CallIsolation
    <2> SUFFICES ASSUME CallsInv PROVE CallIsolation
      OBVIOUS
    <2>1. ASSUME ~ unwound, open # << >>, Innermost.kind # "virtual_canister_notify"
          PROVE  who = Actor(Len(open) - 1)
      <3>1. Len(open) # 0 /\ who = CallerAfter(Len(open))
        BY <2>1, EmptySeq DEF CallsInv
      <3> QED
        BY <2>1, <3>1 DEF CallerAfter, Innermost
    <2>2. ~ unwound /\ open = << >> => who = Test
      BY DEF CallsInv, CallerAfter
    <2> QED
      BY <2>1, <2>2 DEF CallsInv, CallIsolation
  <1> QED
    BY <1>1, CallsInvInit, CallsInvNext, PTL DEF CallsSpec

-----------------------------------------------------------------------------
(* MockState *)

\* A lent that is held was noted when it was taken.
WatchInv ==
  /\ DOMAIN storage = Types /\ DOMAIN borrowed = Types
  /\ \A t \in Types : borrowed[t] = "held" => t \in storage_modified
  /\ \A t \in Types : borrowed[t] \in {"none", "held", "early"}
  /\ ModificationsAreWatched

\* Every operation of the context keeps what the watcher knows.
LEMMA WatchedNext == WatchInv /\ [StateNext]_stateVars => WatchInv'
  <1> SUFFICES ASSUME WatchInv, [StateNext]_stateVars
               PROVE  WatchInv'
    OBVIOUS
  <1>1. ASSUME UNCHANGED << storage, storage_modified, borrowed, seenAtWatch >>
        PROVE  WatchInv'
    BY <1>1 DEF WatchInv, ModificationsAreWatched, Seen
  <1>2. ASSUME NEW t \in Types, NEW d, NEW modified, NEW lent \in {"none", "held", "early"},
               Storage(t, d, modified, lent),
               \/ t \in modified
               \/ lent = borrowed[t] /\ (d = Seen(storage)[t] \/ borrowed[t] # "none")
        PROVE  WatchInv'
    <2>1. /\ storage' = [storage EXCEPT ![t] = d] /\ seenAtWatch' = seenAtWatch
          /\ storage_modified' = storage_modified \cup modified
          /\ borrowed' = [borrowed EXCEPT ![t] = lent]
      BY <1>2 DEF Storage
    <2>2. /\ DOMAIN storage' = Types /\ DOMAIN borrowed' = Types /\ borrowed'[t] = lent
          /\ \A x \in Types : x # t => borrowed'[x] = borrowed[x]
      BY <2>1 DEF WatchInv
    <2>3. \A x \in Types : x # t => Seen(storage)'[x] = Seen(storage)[x]
      BY <2>1 DEF Seen, WatchInv
    <2>4. d = Seen(storage)[t] => Seen(storage)'[t] = Seen(storage)[t]
      BY <2>1 DEF Seen, WatchInv
    <2>5. ASSUME NEW x \in Types
          PROVE  /\ borrowed'[x] = "held" => x \in storage_modified'
                 /\ borrowed'[x] \in {"none", "held", "early"}
                 /\ Seen(storage)'[x] # seenAtWatch'[x] => x \in storage_modified' \/ borrowed'[x] = "early"
      <3>1. CASE x # t
        BY <2>1, <2>2, <2>3, <3>1 DEF WatchInv, ModificationsAreWatched
      <3>2. CASE x = t /\ t \in modified
        BY <2>1, <2>2, <3>2
      <3>3. CASE x = t /\ lent = borrowed[t]
        BY <1>2, <2>1, <2>2, <2>4, <3>3 DEF WatchInv, ModificationsAreWatched
      <3> QED
        BY <1>2, <3>1, <3>2, <3>3
    <2> QED
      BY <2>2, <2>5 DEF WatchInv, ModificationsAreWatched
  <1>3. CASE Inject
    BY <1>3 DEF Inject, NewState, NoStorage, NoBorrow, WatchInv, ModificationsAreWatched, Seen
  <1>4. CASE ClearStorage
    BY <1>4 DEF ClearStorage, NoStorage, NoBorrow, WatchInv, ModificationsAreWatched, Seen
  <1>5. CASE WatchState
    BY <1>5 DEF WatchState, WatchInv, ModificationsAreWatched, Seen
  <1>6. CASE Caller \/ Trap \/ CallOut \/ CallStateReset \/ StableRestore \/ DataCertificate
             \/ UNCHANGED stateVars
    BY <1>1, <1>6 DEF Caller, Trap, CallOut, CallStateReset, StableRestore, DataCertificate, stateVars
  <1>7. ASSUME NEW g \in Getters, Get(g) PROVE WatchInv'
    BY <1>1, <1>7 DEF Get
  <1>8. ASSUME NEW c \in Callers, UpdateCaller(c)
        PROVE  WatchInv'
    BY <1>1, <1>8 DEF UpdateCaller
  <1>9. ASSUME NEW t \in Types,
               \/ GetRef(t) \/ Delete(t)
               \/ \E d \in Data : Store(t, d) \/ GetMut(t, d) \/ WriteBorrowed(t, d)
        PROVE  WatchInv'
    <2>1. borrowed[t] \in {"none", "held", "early"}
      BY DEF WatchInv
    <2>2. ASSUME GetRef(t) PROVE WatchInv'
      BY <1>2, <2>1, <2>2 DEF GetRef
    <2>3. ASSUME Delete(t) PROVE WatchInv'
      BY <1>2, <2>3 DEF Delete
    <2>4. ASSUME NEW d \in Data, Store(t, d) \/ GetMut(t, d) PROVE WatchInv'
      BY <1>2, <2>4 DEF Store, GetMut
    <2>5. ASSUME NEW d \in Data, WriteBorrowed(t, d) PROVE WatchInv'
      BY <1>2, <2>1, <2>5 DEF WriteBorrowed
    <2> QED
      BY <1>9, <2>2, <2>3, <2>4, <2>5
  <1>10. ASSUME NEW t \in Types, NEW d \in Data, NEW encodes \in BOOLEAN, StableStore(t, d, encodes)
         PROVE  WatchInv'
    BY <1>1, <1>10 DEF StableStore
  <1>11. ASSUME NEW data \in CertBytes, SetCertifiedData(data)
         PROVE  WatchInv'
    BY <1>1, <1>11 DEF SetCertifiedData
  <1> QED
    BY <1>3, <1>4, <1>5, <1>6, <1>7, <1>8, <1>9, <1>10, <1>11 DEF StateNext

\* No write to the storage of the mock context escapes the watcher, but one
\* through a reference taken before watch() (Watcher::is_modified).
THEOREM WatcherSeesWrites == StateSpec => []ModificationsAreWatched
  <1>1. StateInit => WatchInv
    BY DEF StateInit, NoStorage, NoBorrow, WatchInv, ModificationsAreWatched, Seen
  <1>2. WatchInv => ModificationsAreWatched
    BY DEF WatchInv
  <1> QED
    BY <1>1, <1>2, WatchedNext, PTL DEF StateSpec

-----------------------------------------------------------------------------
(* Metrics *)

\* A remainder is smaller than the divisor, and not more than what is divided.
LEMMA Remainder ==
  ASSUME NEW x \in Nat, NEW c \in Nat \ {0}
  PROVE  x % c \in 0 .. c - 1 /\ x % c <= x /\ (x < c => x % c = x)
  <1> DEFINE q == x \div c
             r == x % c
  <1>1. q \in Int /\ r \in 0 .. c - 1 /\ x = c * q + r
    BY Z3
  <1> HIDE DEF q, r
  <1>2. ASSUME q <= -1 PROVE FALSE
    <2>1. c * q <= -c
      BY <1>1, <1>2, Z3
    <2> QED
      BY <1>1, <2>1
  <1>3. q >= 0
    BY <1>1, <1>2
  <1>4. c * q >= 0
    BY <1>1, <1>3, Z3
  <1>5. r <= x
    BY <1>1, <1>4
  <1>6. ASSUME x < c, q >= 1 PROVE FALSE
    <2>1. c * q >= c
      BY <1>1, <1>6, Z3
    <2> QED
      BY <1>1, <1>6, <2>1
  <1>7. x < c => r = x
    <2> HAVE x < c
    <2>1. q = 0
      BY <1>1, <1>3, <1>6
    <2>2. c * q = 0
      BY <2>1, Z3
    <2> QED
      BY <1>1, <2>2
  <1> QED
    BY <1>1, <1>5, <1>7 DEF r

\* An interval is a u64.
LEMMA NanosType ==
  ASSUME NEW s \in Nat
  PROVE  Nanos(s) \in 0 .. Nanos64 - 1
  <1>1. s * NanosPerSec \in Nat
    BY IntervalAssumption
  <1> QED
    BY <1>1, IntervalAssumption, Remainder DEF Nanos

\* No snapshots yet.
LEMMA MetricsInvInit == MetricsInit => MetricsInv
  <1> SUFFICES ASSUME MetricsInit PROVE MetricsInv
    OBVIOUS
  <1>1. interval \in 0 .. Nanos64 - 1
    BY NanosType DEF MetricsInit
  <1>2. DOMAIN samples = {} /\ timers = {} /\ clock = 0 /\ taken = 0 /\ wrapped = FALSE
    BY DEF MetricsInit
  <1>3. MetricsTypeOK
    BY <1>1, <1>2 DEF MetricsTypeOK
  <1>4. clock \in Nat /\ taken \in Nat /\ wrapped \in BOOLEAN
    BY <1>2
  <1> QED
    BY <1>2, <1>3, <1>4, Zenon DEF MetricsInv

\* The last key of a map of snapshots.
LEMMA MaxIs ==
  ASSUME NEW S \in SUBSET Int, NEW m \in S, \A s \in S : s <= m
  PROVE  Max(S) = m
  <1>1. \A s \in S : m >= s
    OBVIOUS
  <1>2. Max(S) \in S /\ \A s \in S : Max(S) >= s
    BY <1>1 DEF Max
  <1>3. Max(S) \in Int /\ m \in Int /\ Max(S) <= m /\ Max(S) >= m
    BY <1>2
  <1> QED
    BY <1>3

\* MetricsMap::insert keeps the invariant: the new snapshot is the last, in
\* the place of the one of its interval or behind it.
LEMMA InsertKeeps ==
  ASSUME MetricsInv, Insert
  PROVE  MetricsInv'
  <1> DEFINE map == Trim(samples)
             bound == Max({0, clock - HistoryLength})
             key == NewTs(map)
  <1>1. /\ interval \in Nat \ {0} /\ interval < Nanos64 /\ clock \in Nat /\ taken \in Nat
        /\ DOMAIN samples \subseteq 0 .. clock /\ Nanos64 \in Nat \ {0}
    BY IntervalAssumption DEF MetricsInv, MetricsTypeOK, Insert
  <1>2. bound \in Int
    <2>1. clock - HistoryLength \in Int
      BY <1>1, MetricsAssumption
    <2>2. CASE clock - HistoryLength <= 0
      BY <2>1, <2>2, MaxIs
    <2>3. CASE clock - HistoryLength >= 0
      BY <2>1, <2>3, MaxIs
    <2> QED
      BY <2>1, <2>2, <2>3
  <1>3. /\ DOMAIN map = {ts \in DOMAIN samples : ts >= bound}
        /\ \A s \in DOMAIN map : map[s] = samples[s] /\ s \in 0 .. clock /\ s \in DOMAIN samples
    BY <1>1 DEF Trim, Restrict
  <1>4. /\ taken' = taken + 1
        /\ samples' = [ts \in DOMAIN map \cup {key} |-> IF ts = key THEN taken + 1 ELSE map[ts]]
        /\ wrapped' = (wrapped \/ LastTs(map) + interval >= Nanos64)
        /\ UNCHANGED << clock, interval, timers >>
    BY DEF Insert
  <1> HIDE DEF map, bound
  <1>5. clock % interval \in 0 .. interval - 1 /\ clock - (clock % interval) \in 0 .. clock
    <2>1. clock % interval \in 0 .. interval - 1 /\ clock % interval <= clock
      BY <1>1, Remainder
    <2> QED
      BY <1>1, <2>1
  <1>6. ASSUME DOMAIN map # {}
        PROVE  \E last \in DOMAIN map : /\ LastTs(map) = last /\ \A s \in DOMAIN map : s <= last
    <2>1. PICK last \in DOMAIN samples : \A s \in DOMAIN samples : s <= last
      BY <1>3, <1>6 DEF MetricsInv
    <2>2. last \in DOMAIN map
      <3>1. PICK s \in DOMAIN map : TRUE
        BY <1>6
      <3>2. s \in Int /\ s >= bound /\ s <= last /\ last \in Int
        BY <1>1, <1>3, <2>1, <3>1
      <3>3. last >= bound
        BY <1>2, <3>2
      <3> QED
        BY <1>3, <3>3
    <2>3. \A s \in DOMAIN map : s <= last
      BY <1>3, <2>1
    <2>4. DOMAIN map \subseteq Int
      BY <1>3
    <2>5. LastTs(map) = last
      BY <1>6, <2>2, <2>3, <2>4, MaxIs DEF LastTs
    <2> QED
      BY <2>2, <2>3, <2>5
  <1>7. LastTs(map) \in 0 .. clock
    <2>1. CASE DOMAIN map = {}
      BY <1>1, <2>1 DEF LastTs
    <2>2. CASE DOMAIN map # {}
      BY <1>3, <1>6, <2>2
    <2> QED
      BY <2>1, <2>2
  <1>8. key \in 0 .. clock
    BY <1>5, <1>7 DEF NewTs
  <1>9. ASSUME ~ wrapped' PROVE \A s \in DOMAIN map : s <= key
    <2> DEFINE l == LastTs(map)
    <2>a. ~ (l + interval >= Nanos64)
      BY <1>4, <1>9, Zenon
    <2>b. l \in Nat
      BY <1>7
    <2>c. \A s \in DOMAIN map : s <= l
      BY <1>6
    <2> HIDE DEF l
    <2>1. l + interval < Nanos64 /\ l \in Nat /\ \A s \in DOMAIN map : s <= l
      BY <1>1, <2>a, <2>b, <2>c
    <2>d. l + interval \in Nat
      BY <1>1, <2>b
    <2>2. (l + interval) % Nanos64 = l + interval
      BY <1>1, <2>1, <2>d, Remainder
    <2>3. key = IF clock < l + interval THEN l ELSE clock - (clock % interval)
      BY <2>2 DEF NewTs, l
    <2>4. l <= key
      <3> HIDE DEF key
      <3>1. CASE clock < l + interval
        BY <2>1, <2>3, <3>1
      <3>2. CASE ~ (clock < l + interval)
        <4> DEFINE r == clock % interval
        <4>1. r \in 0 .. interval - 1 /\ key = clock - r
          BY <1>5, <2>3, <3>2
        <4> HIDE DEF r
        <4> QED
          BY <1>1, <2>1, <3>2, <4>1
      <3> QED
        BY <3>1, <3>2
    <2> HIDE DEF key
    <2>5. \A s \in DOMAIN map : s \in Int
      BY <1>3
    <2>6. key \in Int
      BY <1>8
    <2> QED
      BY <2>1, <2>4, <2>5, <2>6
  <1> HIDE DEF key
  <1>10. /\ DOMAIN samples' = DOMAIN map \cup {key}
         /\ samples'[key] = taken'
         /\ \A s \in DOMAIN samples' : s # key => s \in DOMAIN map /\ samples'[s] = map[s]
    BY <1>4
  <1>11. DOMAIN samples' \subseteq 0 .. clock'
    BY <1>3, <1>4, <1>8, <1>10
  <1>12. \A s \in DOMAIN map : map[s] \in 0 .. taken
    BY <1>3 DEF MetricsInv
  <1>13. \A s \in DOMAIN samples' : samples'[s] \in 0 .. taken'
    BY <1>1, <1>4, <1>10, <1>12
  <1>14. \E last \in DOMAIN samples' :
            /\ \A s \in DOMAIN samples' : s <= last
            /\ wrapped' \/ samples'[last] = taken'
    <2>1. CASE ~ wrapped'
      BY <1>8, <1>9, <1>10, <2>1
    <2>2. CASE wrapped' /\ DOMAIN map = {}
      BY <1>8, <1>10, <2>2
    <2>3. CASE wrapped' /\ DOMAIN map # {}
      <3>1. PICK last \in DOMAIN map : \A s \in DOMAIN map : s <= last
        BY <1>6, <2>3
      <3>2. last \in Int /\ key \in Int /\ \A s \in DOMAIN map : s \in Int
        BY <1>3, <1>8
      <3>3. CASE last <= key
        BY <1>10, <2>3, <3>1, <3>2, <3>3
      <3>4. CASE key <= last
        BY <1>10, <2>3, <3>1, <3>2, <3>4
      <3> QED
        BY <3>2, <3>3, <3>4
    <2> QED
      BY <1>4, <2>1, <2>2, <2>3
  <1>15. ASSUME ~ wrapped', NEW s \in DOMAIN samples', NEW t \in DOMAIN samples', s < t
         PROVE  samples'[s] < samples'[t]
    <2>1. s \in Int /\ t \in Int /\ key \in Int
      BY <1>8, <1>11
    <2>2. t # key => t <= key
      BY <1>9, <1>10, <1>15
    <2>3. s # key
      BY <1>9, <1>10, <1>15, <2>1
    <2>4. s \in DOMAIN map /\ samples'[s] = samples[s] /\ samples[s] \in 0 .. taken
      BY <1>3, <1>10, <1>12, <2>3
    <2>5. CASE t = key
      BY <1>1, <1>4, <1>10, <2>4, <2>5
    <2>6. CASE t # key
      <3>1. t \in DOMAIN samples /\ samples'[t] = samples[t] /\ s \in DOMAIN samples
        BY <1>3, <1>10, <2>4, <2>6
      <3> QED
        BY <1>4, <1>15, <2>4, <3>1 DEF MetricsInv
    <2> QED
      BY <2>5, <2>6
  <1>16. wrapped' \in BOOLEAN
    BY <1>4
  <1>17. MetricsTypeOK'
    BY <1>4, <1>11 DEF MetricsTypeOK, MetricsInv
  <1>18. clock' \in Nat /\ taken' \in Nat
    BY <1>1, <1>4
  <1> QED
    BY <1>13, <1>14, <1>15, <1>16, <1>17, <1>18, Zenon DEF MetricsInv

\* Every message and every timer keeps the invariant.
LEMMA MetricsInvNext == MetricsInv /\ [MetricsNext]_metricsVars => MetricsInv'
  <1> SUFFICES ASSUME MetricsInv, [MetricsNext]_metricsVars PROVE MetricsInv'
    OBVIOUS
  <1>1. ASSUME interval' \in 0 .. Nanos64 - 1, timers' \subseteq MetricSeconds,
               UNCHANGED << samples, taken, wrapped >>, clock' \in {clock, clock + 1}
        PROVE  MetricsInv'
    <2>1. clock' \in Nat /\ 0 .. clock \subseteq 0 .. clock'
      BY <1>1 DEF MetricsInv
    <2>2. MetricsTypeOK'
      BY <1>1, <2>1 DEF MetricsInv, MetricsTypeOK
    <2> QED
      BY <1>1, <2>1, <2>2 DEF MetricsInv
  <1>2. interval \in 0 .. Nanos64 - 1 /\ timers \subseteq MetricSeconds
    BY DEF MetricsInv, MetricsTypeOK
  <1>3. ASSUME NEW s \in MetricSeconds, SetInterval(s) \/ UpdateMetricsTimer(s) PROVE MetricsInv'
    <2>1. Nanos(s) \in 0 .. Nanos64 - 1
      BY NanosType, MetricsAssumption
    <2> QED
      BY <1>1, <1>2, <1>3, <2>1 DEF SetInterval, UpdateMetricsTimer
  <1>4. CASE MetricsTick
    BY <1>1, <1>2, <1>4 DEF MetricsTick
  <1>5. CASE UNCHANGED metricsVars
    BY <1>1, <1>2, <1>5 DEF metricsVars
  <1> QED
    BY <1>3, <1>4, <1>5, InsertKeeps DEF MetricsNext, UpdateMetrics, TimerFires

\* The snapshot shown last is the one taken last, and the others are in order
\* (MetricsMap::insert), unless an interval of centuries overflows the sum.
THEOREM NewestSnapshotIsLast == MetricsSpec => []NewestIsLast
  <1>1. MetricsInv => NewestIsLast
    <2> SUFFICES ASSUME MetricsInv, ~ wrapped, DOMAIN samples # {}
                 PROVE  samples[Max(DOMAIN samples)] = taken
      BY DEF MetricsInv, NewestIsLast
    <2>1. PICK last \in DOMAIN samples :
            (\A s \in DOMAIN samples : s <= last) /\ samples[last] = taken
      BY DEF MetricsInv
    <2>2. DOMAIN samples \subseteq Int
      BY DEF MetricsInv, MetricsTypeOK
    <2> QED
      BY <2>1, <2>2, MaxIs
  <1> QED
    BY <1>1, MetricsInvInit, MetricsInvNext, PTL DEF MetricsSpec

-----------------------------------------------------------------------------
(* ApiMacros *)

Modes == MethodTypes
IdlRecord == [init : Initials, methods : ModeMap]

\* Two maps of methods make one.
LEMMA BothMaps ==
  ASSUME NEW f \in ModeMap, NEW g \in ModeMap
  PROVE  /\ Both(f, g) \in ModeMap /\ DOMAIN Both(f, g) = DOMAIN f \cup DOMAIN g
         /\ \A n \in DOMAIN f : Both(f, g)[n] = f[n]
         /\ \A n \in DOMAIN g \ DOMAIN f : Both(f, g)[n] = g[n]
  <1>1. PICK F \in SUBSET ApiNames : f \in [F -> Modes]
    BY DEF ModeMap, Modes
  <1>2. PICK G \in SUBSET ApiNames : g \in [G -> Modes]
    BY DEF ModeMap, Modes
  <1>3. Both(f, g) \in [F \cup G -> Modes]
    BY <1>1, <1>2 DEF Both
  <1>4. Both(f, g) \in ModeMap
    BY <1>3 DEF ModeMap, Modes
  <1> QED
    BY <1>4 DEF Both

\* Before the first attribute nothing is written.
LEMMA MacrosInvInit == MacrosInit => MacrosInv
  <1> SUFFICES ASSUME MacrosInit PROVE MacrosInv
    OBVIOUS
  <1>1. << >> \in [{} -> Modes] /\ DOMAIN << >> = {}
    OBVIOUS
  <1>2. << >> \in ModeMap
    BY <1>1 DEF ModeMap, Modes
  <1>3. methods = << >> /\ written = << >> /\ idls = << >> /\ broken = FALSE /\ init = Nothing
        /\ repeated = {} /\ exports = [x \in ExportNames |-> 0] /\ exported = [x \in ExportNames |-> 0]
    BY DEF MacrosInit
  <1>4. MethodsInv
    BY <1>3 DEF MethodsInv
  <1>5. ExportsInv
    BY <1>1, <1>3 DEF ExportsInv
  <1>6. idls \in Seq([init : Initials, methods : ModeMap])
    BY <1>3
  <1> QED
    BY <1>2, <1>3, <1>4, <1>5, <1>6 DEF MacrosInv, Initials

\* An attribute puts a new method into the map that waits for an IDL.
LEMMA ApiMethodKeeps ==
  ASSUME MacrosInv, ~ broken, NEW name \in ApiNames, NEW sig \in Signature, NEW args \in InitArgs,
         ApiMethod(name, sig, args)
  PROVE  MacrosInv'
  <1>1. CASE Refused(sig)
    <2>1. broken' = TRUE /\ UNCHANGED << methods, init, exports, exported, written, repeated, idls >>
      BY <1>1 DEF ApiMethod
    <2>2. MethodsInv' /\ ExportsInv'
      BY <2>1 DEF MacrosInv, MethodsInv, ExportsInv
    <2> QED
      BY <2>1, <2>2 DEF MacrosInv
  <1>2. CASE ~ Refused(sig)
    <2> DEFINE one == [n \in {name} |-> sig.mode]
    <2>1. /\ init' = (IF sig.mode = "init" THEN args ELSE init)
          /\ methods' = (IF Management(sig) THEN methods ELSE Both(one, methods))
          /\ written' = Both(one, written)
          /\ repeated' = repeated \cup ({name} \cap DOMAIN written)
          /\ UNCHANGED idls
      BY <1>2 DEF ApiMethod, StoreCandidDefinitions
    <2>2. sig.mode \in Modes /\ sig.in_trait \in BOOLEAN
      BY DEF Signature, Modes
    <2>3. one \in ModeMap /\ DOMAIN one = {name} /\ one[name] = sig.mode
      <3>1. one \in [{name} -> Modes] /\ DOMAIN one = {name} /\ one[name] = sig.mode
        BY <2>2
      <3>2. {name} \in SUBSET ApiNames
        OBVIOUS
      <3> HIDE DEF one
      <3> QED
        BY <3>1, <3>2 DEF ModeMap, Modes
    <2> HIDE DEF one
    <2>4. /\ written' \in ModeMap /\ DOMAIN written' = DOMAIN written \cup {name}
          /\ written'[name] = sig.mode /\ \A n \in DOMAIN written \ {name} : written'[n] = written[n]
      <3>1. written \in ModeMap
        BY DEF MacrosInv
      <3>2. written' = Both(one, written)
        BY <2>1
      <3>3. /\ Both(one, written) \in ModeMap
            /\ DOMAIN Both(one, written) = DOMAIN one \cup DOMAIN written
            /\ \A n \in DOMAIN one : Both(one, written)[n] = one[n]
            /\ \A n \in DOMAIN written \ DOMAIN one : Both(one, written)[n] = written[n]
        BY <2>3, <3>1, BothMaps
      <3>4. written' \in ModeMap /\ DOMAIN written' = DOMAIN written \cup {name}
        BY <2>3, <3>2, <3>3
      <3>5. written'[name] = sig.mode
        BY <2>3, <3>2, <3>3
      <3>6. \A n \in DOMAIN written \ {name} : written'[n] = written[n]
        BY <2>3, <3>2, <3>3
      <3> QED
        BY <3>4, <3>5, <3>6
    <2>5. ~ Management(sig) =>
            /\ methods' \in ModeMap /\ DOMAIN methods' = DOMAIN methods \cup {name}
            /\ methods'[name] = sig.mode /\ \A n \in DOMAIN methods \ {name} : methods'[n] = methods[n]
      <3>1. methods \in ModeMap
        BY DEF MacrosInv
      <3> SUFFICES ASSUME ~ Management(sig)
                   PROVE  /\ methods' \in ModeMap /\ DOMAIN methods' = DOMAIN methods \cup {name}
                          /\ methods'[name] = sig.mode
                          /\ \A n \in DOMAIN methods \ {name} : methods'[n] = methods[n]
        OBVIOUS
      <3>2. methods' = Both(one, methods)
        BY <2>1
      <3>3. /\ Both(one, methods) \in ModeMap
            /\ DOMAIN Both(one, methods) = DOMAIN one \cup DOMAIN methods
            /\ \A n \in DOMAIN one : Both(one, methods)[n] = one[n]
            /\ \A n \in DOMAIN methods \ DOMAIN one : Both(one, methods)[n] = methods[n]
        BY <2>3, <3>1, BothMaps
      <3>4. methods' \in ModeMap /\ DOMAIN methods' = DOMAIN methods \cup {name}
        BY <2>3, <3>2, <3>3
      <3>5. methods'[name] = sig.mode
        BY <2>3, <3>2, <3>3
      <3>6. \A n \in DOMAIN methods \ {name} : methods'[n] = methods[n]
        BY <2>3, <3>2, <3>3
      <3> QED
        BY <3>4, <3>5, <3>6
    <2>6. Management(sig) <=> sig.mode \notin {"query", "update"}
      BY <2>2 DEF Management, IsManagement, Modes, MethodTypes
    <2>7. /\ methods' \in ModeMap /\ DOMAIN methods \subseteq DOMAIN methods'
          /\ DOMAIN methods' \subseteq DOMAIN methods \cup {name}
          /\ \A n \in DOMAIN methods \ {name} : methods'[n] = methods[n]
          /\ name \notin DOMAIN methods /\ name \in DOMAIN methods' => methods'[name] = sig.mode
          /\ sig.mode \in {"query", "update"} => name \in DOMAIN methods'
      <3>1. CASE Management(sig)
        <4>1. methods' = methods
          BY <2>1, <3>1
        <4> QED
          BY <2>6, <3>1, <4>1 DEF MacrosInv
      <3>2. CASE ~ Management(sig)
        BY <2>5, <2>6, <3>2
      <3> QED
        BY <3>1, <3>2
    <2>8. MethodsInv'
      <3>1. /\ repeated \subseteq DOMAIN written /\ DOMAIN methods \subseteq DOMAIN written
            /\ \A i \in DOMAIN idls : DOMAIN idls[i].methods \subseteq DOMAIN written
        BY DEF MacrosInv, MethodsInv
      <3>2. /\ repeated' \subseteq DOMAIN written' /\ DOMAIN methods' \subseteq DOMAIN written'
            /\ \A i \in DOMAIN idls' : DOMAIN idls'[i].methods \subseteq DOMAIN written'
        BY <2>1, <2>4, <2>7, <3>1
      <3>3. \A n : n \notin repeated' => n \notin repeated /\ (n = name => n \notin DOMAIN written)
        BY <2>1
      <3>4. \A n \in DOMAIN methods' \ repeated' : methods'[n] = written'[n]
        <4> SUFFICES ASSUME NEW n \in DOMAIN methods' \ repeated' PROVE methods'[n] = written'[n]
          OBVIOUS
        <4>1. CASE n = name
          <5>1. n \notin DOMAIN written /\ n \notin DOMAIN methods
            BY <3>1, <3>3, <4>1
          <5> QED
            BY <2>4, <2>7, <4>1, <5>1
        <4>2. CASE n # name
          <5>1. n \in DOMAIN methods \ repeated /\ methods[n] = written[n]
            BY <2>7, <3>3, <4>2 DEF MacrosInv, MethodsInv
          <5> QED
            BY <2>4, <2>7, <3>1, <4>2, <5>1
        <4> QED
          BY <4>1, <4>2
      <3>5. \A i \in DOMAIN idls : \A n \in DOMAIN idls[i].methods \ repeated' :
              n \notin DOMAIN methods' /\ idls[i].methods[n] = written'[n]
        <4> SUFFICES ASSUME NEW i \in DOMAIN idls, NEW n \in DOMAIN idls[i].methods \ repeated'
                     PROVE  n \notin DOMAIN methods' /\ idls[i].methods[n] = written'[n]
          OBVIOUS
        <4>1. n \in DOMAIN written /\ n # name /\ n \notin repeated
          BY <3>1, <3>3
        <4>2. n \notin DOMAIN methods /\ idls[i].methods[n] = written[n]
          BY <4>1 DEF MacrosInv, MethodsInv
        <4> QED
          BY <2>4, <2>7, <4>1, <4>2
      <3>6. \A i, j \in DOMAIN idls : \A n \in DOMAIN idls[i].methods \ repeated' :
              n \in DOMAIN idls[j].methods => i = j
        BY <3>3 DEF MacrosInv, MethodsInv
      <3>7. \A n \in DOMAIN written' \ repeated' : written'[n] \in {"query", "update"} =>
              n \in DOMAIN methods' \/ \E i \in DOMAIN idls : n \in DOMAIN idls[i].methods
        <4> SUFFICES ASSUME NEW n \in DOMAIN written' \ repeated', written'[n] \in {"query", "update"}
                     PROVE  n \in DOMAIN methods' \/ \E i \in DOMAIN idls : n \in DOMAIN idls[i].methods
          OBVIOUS
        <4>1. CASE n = name
          BY <2>4, <2>7, <4>1
        <4>2. CASE n # name
          <5>1. n \in DOMAIN written \ repeated /\ written[n] \in {"query", "update"}
            BY <2>4, <3>3, <4>2
          <5>2. n \in DOMAIN methods \/ \E i \in DOMAIN idls : n \in DOMAIN idls[i].methods
            BY <5>1 DEF MacrosInv, MethodsInv
          <5> QED
            BY <2>7, <5>2
        <4> QED
          BY <4>1, <4>2
      <3> QED
        BY <2>1, <3>2, <3>4, <3>5, <3>6, <3>7 DEF MethodsInv
    <2>9. ExportsInv'
      <3>1. PICK x \in ExportNames : x = ExportName(name, sig.mode)
        BY <2>2 DEF ExportName, ExportNames, Modes
      <3>2. /\ exports' = [exports EXCEPT ![x] = @ + IF sig.in_trait THEN 1 ELSE 0]
            /\ exported' = [exported EXCEPT ![x] = @ + IF sig.in_trait THEN 0 ELSE 1]
            /\ broken' = (exported'[x] > 1)
        BY <1>2, <3>1, Zenon DEF ApiMethod
      <3>3. /\ exports \in [ExportNames -> Nat] /\ exported \in [ExportNames -> Nat]
            /\ \A y \in ExportNames : exported[y] <= 1
        BY DEF MacrosInv, ExportsInv
      <3>4. /\ exports' \in [ExportNames -> Nat] /\ exported' \in [ExportNames -> Nat]
            /\ exports'[x] + exported'[x] >= 1
            /\ \A y \in ExportNames : exports'[y] >= exports[y] /\ exported'[y] >= exported[y]
            /\ \A y \in ExportNames \ {x} : exported'[y] = exported[y]
        BY <2>2, <3>2, <3>3
      <3>5. ~ broken' => \A y \in ExportNames : exported'[y] <= 1
        <4>1. ~ broken' => ~ (exported'[x] > 1)
          BY <3>2, Zenon
        <4>2. ~ (exported'[x] > 1) => \A y \in ExportNames : exported'[y] <= 1
          BY <3>3, <3>4
        <4> QED
          BY <4>1, <4>2
      <3>6. ASSUME NEW n \in DOMAIN written'
            PROVE  exports'[ExportName(n, written'[n])] + exported'[ExportName(n, written'[n])] >= 1
        <4>1. CASE n = name
          BY <2>4, <3>1, <3>4, <4>1
        <4>2. CASE n # name
          <5>1. n \in DOMAIN written /\ written'[n] = written[n]
            BY <2>4, <4>2
          <5>2. n \in ApiNames /\ written[n] \in Modes
            BY <5>1 DEF MacrosInv, ModeMap, Modes
          <5>3. PICK y \in ExportNames : y = ExportName(n, written[n])
            BY <5>2 DEF ExportName, ExportNames, Modes
          <5>4. exports[y] + exported[y] >= 1
            BY <5>1, <5>3 DEF MacrosInv, ExportsInv
          <5>5. exports'[y] + exported'[y] >= 1
            BY <3>3, <3>4, <5>4
          <5> QED
            BY <5>1, <5>3, <5>5
        <4> QED
          BY <4>1, <4>2
      <3> QED
        BY <3>4, <3>5, <3>6 DEF ExportsInv
    <2>10. init' \in Initials /\ broken' \in BOOLEAN
      BY <1>2, <2>1 DEF MacrosInv, Initials, ApiMethod
    <2> QED
      BY <2>1, <2>4, <2>7, <2>8, <2>9, <2>10 DEF MacrosInv
  <1> QED
    BY <1>1, <1>2

\* generate_exports! exports the methods of traits, and no others.
LEMMA GenerateExportsKeeps ==
  ASSUME MacrosInv, ~ broken, GenerateExports
  PROVE  MacrosInv'
  <1>1. /\ exported' = [x \in ExportNames |-> exported[x] + exports[x]]
        /\ broken' = (broken \/ \E x \in ExportNames : exported'[x] > 1)
        /\ UNCHANGED << methods, init, exports, idls, written, repeated >>
    BY DEF GenerateExports
  <1>2. broken' \in BOOLEAN
    BY <1>1
  <1>3. exports \in [ExportNames -> Nat] /\ exported \in [ExportNames -> Nat]
    BY DEF MacrosInv, ExportsInv
  <1>4. exported' \in [ExportNames -> Nat] /\ \A x \in ExportNames : exported'[x] >= exported[x]
    BY <1>1, <1>3
  <1>5. ASSUME NEW n \in DOMAIN written
        PROVE  exports[ExportName(n, written[n])] + exported'[ExportName(n, written[n])] >= 1
    <2>1. n \in ApiNames /\ written[n] \in Modes
      BY DEF MacrosInv, ModeMap, Modes
    <2>2. PICK x \in ExportNames : x = ExportName(n, written[n])
      BY <2>1 DEF ExportName, ExportNames, Modes
    <2>3. exports[x] + exported[x] >= 1
      BY <2>2 DEF MacrosInv, ExportsInv
    <2>4. exports[x] + exported'[x] >= 1
      BY <1>3, <1>4, <2>3
    <2> QED
      BY <2>2, <2>4
  <1>6. ~ broken' => \A x \in ExportNames : exported'[x] <= 1
    <2>1. ~ broken' => ~ \E x \in ExportNames : exported'[x] > 1
      BY <1>1, Zenon
    <2>2. (~ \E x \in ExportNames : exported'[x] > 1) => \A x \in ExportNames : exported'[x] <= 1
      BY <1>4
    <2> QED
      BY <2>1, <2>2
  <1>7. ExportsInv'
    BY <1>1, <1>3, <1>4, <1>5, <1>6 DEF ExportsInv
  <1>8. MethodsInv'
    BY <1>1 DEF MacrosInv, MethodsInv
  <1> QED
    BY <1>1, <1>2, <1>7, <1>8 DEF MacrosInv

\* generate_idl! moves the methods that wait into a new IDL.
LEMMA IdlKeeps ==
  ASSUME MacrosInv, ~ broken, GenerateIdl
  PROVE  MacrosInv'
  <1>1. PICK l \in Nat : l = Len(idls)
    BY DEF MacrosInv
  <1> DEFINE new == [init |-> init, methods |-> methods]
  <1>2. /\ idls' = Append(idls, new) /\ methods' = << >>
        /\ init' = (IF init = Nothing THEN Nothing ELSE << >>)
        /\ UNCHANGED << exports, exported, written, repeated, broken >>
    BY DEF GenerateIdl
  <1>3. new \in IdlRecord /\ idls \in Seq(IdlRecord) /\ new.methods = methods
    BY DEF MacrosInv, IdlRecord
  <1> HIDE DEF new
  <1>4. /\ idls' \in Seq(IdlRecord) /\ DOMAIN idls' = 1 .. l + 1 /\ DOMAIN idls = 1 .. l
        /\ idls'[l + 1] = new /\ \A i \in 1 .. l : idls'[i] = idls[i]
    BY <1>1, <1>2, <1>3, AppendProperties
  <1>5. DOMAIN methods' = {} /\ methods' \in ModeMap
    <2>1. << >> \in [{} -> Modes]
      OBVIOUS
    <2> QED
      BY <1>2, <2>1 DEF ModeMap, Modes
  <1>6. \A i \in DOMAIN idls' : i \in DOMAIN idls \/ i = l + 1
    BY <1>1, <1>4
  <1>7. MethodsInv'
    <2>1. /\ \A n \in DOMAIN methods : n \in DOMAIN written
          /\ \A n \in DOMAIN methods \ repeated : methods[n] = written[n]
          /\ repeated \subseteq DOMAIN written
      BY DEF MacrosInv, MethodsInv
    <2>2. \A i \in DOMAIN idls : /\ idls'[i] = idls[i] /\ i \in DOMAIN idls' /\ i # l + 1
                                 /\ \A n \in DOMAIN idls[i].methods : n \in DOMAIN written
                                 /\ \A n \in DOMAIN idls[i].methods \ repeated :
                                      n \notin DOMAIN methods /\ idls[i].methods[n] = written[n]
      BY <1>1, <1>4 DEF MacrosInv, MethodsInv
    <2>3. l + 1 \in DOMAIN idls' /\ idls'[l + 1].methods = methods
      BY <1>1, <1>3, <1>4
    <2>4. \A i \in DOMAIN idls' :
            /\ \A n \in DOMAIN idls'[i].methods : n \in DOMAIN written
            /\ \A n \in DOMAIN idls'[i].methods \ repeated : idls'[i].methods[n] = written[n]
      BY <1>6, <2>1, <2>2, <2>3
    <2>5. ASSUME NEW i \in DOMAIN idls', NEW j \in DOMAIN idls',
                 NEW n \in DOMAIN idls'[i].methods \ repeated,
                 n \in DOMAIN idls'[j].methods
          PROVE  i = j
      BY <1>6, <2>2, <2>3, <2>5 DEF MacrosInv, MethodsInv
    <2>6. \A n \in DOMAIN written \ repeated : written[n] \in {"query", "update"} =>
            \E i \in DOMAIN idls' : n \in DOMAIN idls'[i].methods
      BY <2>2, <2>3 DEF MacrosInv, MethodsInv
    <2> QED
      BY <1>2, <1>5, <2>1, <2>4, <2>5, <2>6 DEF MethodsInv
  <1>8. ExportsInv'
    BY <1>2 DEF MacrosInv, ExportsInv
  <1>9. init' \in Initials
    BY <1>2 DEF Initials
  <1> QED
    BY <1>2, <1>4, <1>5, <1>7, <1>8, <1>9 DEF MacrosInv, IdlRecord

\* Idl::merge joins the first two IDLs; the others move up.
LEMMA MergeKeeps ==
  ASSUME MacrosInv, ~ broken, MergeIdls
  PROVE  MacrosInv'
  <1>1. PICK l \in Nat : l = Len(idls)
    BY DEF MacrosInv
  <1>2. idls \in Seq(IdlRecord) /\ DOMAIN idls = 1 .. l /\ l >= 2
    BY <1>1 DEF MacrosInv, IdlRecord, MergeIdls
  <1>3. PICK a \in IdlRecord, b \in IdlRecord : a = idls[1] /\ b = idls[2]
    BY <1>2
  <1>4. PICK both : both = Both(a.methods, b.methods)
    OBVIOUS
  <1>5. PICK merged : merged = [init |-> IF a.init # Nothing THEN a.init ELSE b.init, methods |-> both]
    OBVIOUS
  <1>6. /\ idls' = << merged >> \o SubSeq(idls, 3, l)
        /\ UNCHANGED << methods, init, exports, exported, written, repeated >>
        /\ broken' \in BOOLEAN /\ ~ broken
    BY <1>1, <1>3, <1>4, <1>5 DEF MergeIdls
  <1>7. a.methods \in ModeMap /\ b.methods \in ModeMap /\ a.init \in Initials /\ b.init \in Initials
    BY DEF IdlRecord
  <1>8. /\ both \in ModeMap /\ DOMAIN both = DOMAIN a.methods \cup DOMAIN b.methods
        /\ \A n \in DOMAIN a.methods : both[n] = a.methods[n]
        /\ \A n \in DOMAIN b.methods \ DOMAIN a.methods : both[n] = b.methods[n]
    BY <1>4, <1>7, BothMaps
  <1>9. merged \in IdlRecord /\ merged.methods = both
    BY <1>5, <1>7, <1>8 DEF IdlRecord
  <1>10. PICK rest : rest = SubSeq(idls, 3, l)
    OBVIOUS
  <1>11. /\ rest \in Seq(IdlRecord) /\ Len(rest) = l - 2
         /\ \A k \in 1 .. l - 2 : rest[k] = idls[k + 2]
    <2>1. CASE l = 2
      BY <1>2, <1>10, <2>1, SubSeqProperties
    <2>2. CASE l > 2
      BY <1>1, <1>2, <1>10, <2>2, SubSeqProperties
    <2> QED
      BY <1>2, <2>1, <2>2
  <1>12. << merged >> \in Seq(IdlRecord) /\ Len(<< merged >>) = 1 /\ << merged >>[1] = merged
    BY <1>9
  <1>13. /\ idls' \in Seq(IdlRecord) /\ DOMAIN idls' = 1 .. l - 1
         /\ idls'[1] = merged /\ \A k \in 2 .. l - 1 : idls'[k] = idls[k + 1]
    <2>1. /\ idls' \in Seq(IdlRecord) /\ Len(idls') = 1 + (l - 2)
          /\ \A k \in 1 .. 1 + (l - 2) : idls'[k] = IF k <= 1 THEN << merged >>[k] ELSE rest[k - 1]
      BY <1>6, <1>10, <1>11, <1>12, <1>1, <1>2, ConcatProperties
    <2> QED
      BY <1>1, <1>2, <1>11, <1>12, <2>1
  <1>14. MethodsInv'
    <2>1. /\ repeated \subseteq DOMAIN written /\ DOMAIN methods \subseteq DOMAIN written
          /\ \A i \in 1 .. l : DOMAIN idls[i].methods \subseteq DOMAIN written
          /\ \A n \in DOMAIN methods \ repeated : methods[n] = written[n]
          /\ \A i \in 1 .. l : \A n \in DOMAIN idls[i].methods \ repeated :
               n \notin DOMAIN methods /\ idls[i].methods[n] = written[n]
          /\ \A i, j \in 1 .. l : \A n \in DOMAIN idls[i].methods \ repeated :
               n \in DOMAIN idls[j].methods => i = j
          /\ \A n \in DOMAIN written \ repeated : written[n] \in {"query", "update"} =>
               n \in DOMAIN methods \/ \E i \in 1 .. l : n \in DOMAIN idls[i].methods
      BY <1>2 DEF MacrosInv, MethodsInv
    <2>2. /\ \A n \in DOMAIN both : /\ n \in DOMAIN idls[1].methods \/ n \in DOMAIN idls[2].methods
                                    /\ n \in DOMAIN written
          /\ \A n \in DOMAIN both \ repeated : n \notin DOMAIN methods /\ both[n] = written[n]
      BY <1>2, <1>3, <1>8, <2>1
    <2>3. \A i \in 1 .. l - 1 :
            /\ DOMAIN idls'[i].methods \subseteq DOMAIN written
            /\ \A n \in DOMAIN idls'[i].methods \ repeated :
                 n \notin DOMAIN methods /\ idls'[i].methods[n] = written[n]
      <3> SUFFICES ASSUME NEW i \in 1 .. l - 1
                   PROVE  /\ DOMAIN idls'[i].methods \subseteq DOMAIN written
                          /\ \A n \in DOMAIN idls'[i].methods \ repeated :
                               n \notin DOMAIN methods /\ idls'[i].methods[n] = written[n]
        OBVIOUS
      <3>1. CASE i = 1
        BY <1>9, <1>13, <2>2, <3>1
      <3>2. CASE i # 1
        <4>1. i \in 2 .. l - 1 /\ i + 1 \in 1 .. l
          BY <1>1, <1>2, <3>2
        <4> QED
          BY <1>13, <2>1, <4>1
      <3> QED
        BY <3>1, <3>2
    <2>4. ASSUME NEW i \in 1 .. l - 1, NEW j \in 1 .. l - 1,
                 NEW n \in DOMAIN idls'[i].methods \ repeated,
                 n \in DOMAIN idls'[j].methods, i < j
          PROVE  FALSE
      <3>1. j \in 2 .. l - 1 /\ j + 1 \in 1 .. l /\ n \in DOMAIN idls[j + 1].methods
        BY <1>1, <1>2, <1>13, <2>4
      <3>2. CASE i = 1
        <4>1. n \in DOMAIN idls[1].methods \/ n \in DOMAIN idls[2].methods
          BY <1>9, <1>13, <2>2, <3>2
        <4>2. 1 \in 1 .. l /\ 2 \in 1 .. l /\ j + 1 # 1 /\ j + 1 # 2
          BY <1>2, <3>1
        <4> QED
          BY <2>1, <3>1, <4>1, <4>2
      <3>3. CASE i # 1
        <4>1. i \in 2 .. l - 1 /\ i + 1 \in 1 .. l /\ n \in DOMAIN idls[i + 1].methods /\ i + 1 # j + 1
          BY <1>1, <1>2, <1>13, <2>4, <3>3
        <4> QED
          BY <2>1, <3>1, <4>1
      <3> QED
        BY <3>2, <3>3
    <2>5. ASSUME NEW i \in 1 .. l - 1, NEW j \in 1 .. l - 1,
                 NEW n \in DOMAIN idls'[i].methods \ repeated, n \in DOMAIN idls'[j].methods
          PROVE  i = j
      BY <2>4, <2>5
    <2>6. ASSUME NEW n \in DOMAIN written \ repeated, written[n] \in {"query", "update"},
                 n \notin DOMAIN methods
          PROVE  \E i \in 1 .. l - 1 : n \in DOMAIN idls'[i].methods
      <3>1. PICK i \in 1 .. l : n \in DOMAIN idls[i].methods
        BY <2>1, <2>6
      <3>2. CASE i \in {1, 2}
        <4>1. n \in DOMAIN both /\ 1 \in 1 .. l - 1
          BY <1>2, <1>3, <1>8, <3>1, <3>2
        <4> QED
          BY <1>9, <1>13, <4>1
      <3>3. CASE i \notin {1, 2}
        <4>1. i - 1 \in 2 .. l - 1 /\ i - 1 \in 1 .. l - 1 /\ (i - 1) + 1 = i
          BY <1>1, <1>2, <3>3
        <4> QED
          BY <1>13, <3>1, <4>1
      <3> QED
        BY <3>2, <3>3
    <2>7. /\ DOMAIN idls' = 1 .. l - 1 /\ methods' = methods /\ written' = written
          /\ repeated' = repeated
      BY <1>6, <1>13
    <2>8. \A n \in DOMAIN written \ repeated : written[n] \in {"query", "update"} =>
            n \in DOMAIN methods \/ \E i \in 1 .. l - 1 : n \in DOMAIN idls'[i].methods
      BY <2>6
    <2>9. \A i, j \in 1 .. l - 1 : \A n \in DOMAIN idls'[i].methods \ repeated :
            n \in DOMAIN idls'[j].methods => i = j
      BY <2>5
    <2> QED
      BY <2>1, <2>3, <2>7, <2>8, <2>9 DEF MethodsInv
  <1>15. ExportsInv'
    BY <1>6 DEF MacrosInv, ExportsInv
  <1> QED
    BY <1>6, <1>13, <1>14, <1>15 DEF MacrosInv, IdlRecord

\* No macro, and no merge, breaks the invariant.
LEMMA MacrosInvNext == MacrosInv /\ [MacrosNext]_macroVars => MacrosInv'
  <1> SUFFICES ASSUME MacrosInv, [MacrosNext]_macroVars PROVE MacrosInv'
    OBVIOUS
  <1>1. CASE UNCHANGED macroVars
    BY <1>1 DEF macroVars, MacrosInv, MethodsInv, ExportsInv
  <1>2. ASSUME ~ broken, StateGetter PROVE MacrosInv'
    <2>1. UNCHANGED << methods, init, exports, exported, idls, written, repeated >> /\ broken' \in BOOLEAN
      BY <1>2 DEF StateGetter, MacrosInv
    <2>2. MethodsInv' /\ ExportsInv'
      BY <1>2, <2>1 DEF MacrosInv, MethodsInv, ExportsInv
    <2> QED
      BY <2>1, <2>2 DEF MacrosInv
  <1> QED
    BY <1>1, <1>2, ApiMethodKeeps, GenerateExportsKeeps, IdlKeeps, MergeKeeps DEF MacrosNext

\* However attributes, generate_idl!, generate_exports! and merges of IDLs
\* follow one another in a crate, every query and update method whose name no
\* other method has is in exactly one IDL, or waits for one, with the mode it
\* was written with, and a method outside of traits is exported once.
THEOREM IdlsListMethodsOnce == MacrosSpec => []IdlListsEachMethodOnce
  <1>1. MacrosInv => IdlListsEachMethodOnce
    <2> SUFFICES ASSUME MacrosInv, NEW n \in DOMAIN written
                 PROVE  LET listed == {i \in DOMAIN idls : n \in DOMAIN idls[i].methods}
                                        \cup {0 : k \in DOMAIN methods \cap {n}}
                        IN  /\ written[n] \in {"query", "update"} /\ n \notin repeated =>
                                 /\ Cardinality(listed) = 1
                                 /\ \A i \in listed :
                                      written[n] = IF i = 0 THEN methods[n] ELSE idls[i].methods[n]
                            /\ LET x == ExportName(n, written[n])
                               IN  ~broken /\ exports[x] = 0 => exported[x] = 1
      BY DEF IdlListsEachMethodOnce
    <2> DEFINE inIdl == {i \in DOMAIN idls : n \in DOMAIN idls[i].methods}
               waits == {0 : k \in DOMAIN methods \cap {n}}
    <2>1. LET x == ExportName(n, written[n])
          IN  ~broken /\ exports[x] = 0 => exported[x] = 1
      <3>1. n \in ApiNames /\ written[n] \in Modes
        BY DEF MacrosInv, ModeMap, Modes
      <3>2. PICK x \in ExportNames : x = ExportName(n, written[n])
        BY <3>1 DEF ExportName, ExportNames, Modes
      <3>3. /\ exports[x] + exported[x] >= 1 /\ exports[x] \in Nat /\ exported[x] \in Nat
            /\ ~broken => exported[x] <= 1
        BY <3>2 DEF MacrosInv, ExportsInv
      <3>4. ~broken /\ exports[x] = 0 => exported[x] = 1
        BY <3>3
      <3> QED
        BY <3>2, <3>4
    <2>2. idls \in Seq(IdlRecord) /\ 0 \notin DOMAIN idls
      BY DEF MacrosInv, IdlRecord
    <2>3. ASSUME written[n] \in {"query", "update"}, n \notin repeated
          PROVE  /\ Cardinality(inIdl \cup waits) = 1
                 /\ \A i \in inIdl \cup waits :
                      written[n] = IF i = 0 THEN methods[n] ELSE idls[i].methods[n]
      <3>1. CASE n \in DOMAIN methods
        <4>1. inIdl = {} /\ waits = {0} /\ methods[n] = written[n]
          BY <2>3, <3>1 DEF MacrosInv, MethodsInv
        <4> QED
          BY <4>1, FS_Singleton
      <3>2. CASE n \notin DOMAIN methods
        <4>1. PICK i \in DOMAIN idls : n \in DOMAIN idls[i].methods
          BY <2>3, <3>2 DEF MacrosInv, MethodsInv
        <4>2. \A j \in DOMAIN idls : n \in DOMAIN idls[j].methods => j = i
          BY <2>3, <4>1 DEF MacrosInv, MethodsInv
        <4>3. inIdl = {i} /\ waits = {}
          BY <3>2, <4>1, <4>2
        <4>4. i # 0 /\ idls[i].methods[n] = written[n]
          BY <2>2, <2>3, <4>1 DEF MacrosInv, MethodsInv
        <4> QED
          BY <4>3, <4>4, FS_Singleton
      <3> QED
        BY <3>1, <3>2
    <2> QED
      BY <2>1, <2>3
  <1> QED
    BY <1>1, MacrosInvInit, MacrosInvNext, PTL DEF MacrosSpec

-----------------------------------------------------------------------------
(* Induction, as the minimal counterexample of a set *)

LEMMA LeastNumber ==
  ASSUME NEW T \in SUBSET Nat, T # {}
  PROVE  \E x \in T : \A y \in T : x <= y
  <1> DEFINE R == {ss \in Nat \X Nat : ss[1] < ss[2]}
  <1>1. IsWellFoundedOn(R, Nat)
    BY NatLessThanWellFounded DEF OpToRel
  <1>2. \A x \in T, y \in T : << y, x >> \notin R => x <= y
    OBVIOUS
  <1> HIDE DEF R
  <1>3. \E x \in T : \A y \in T : ~ (<< y, x >> \in R)
    BY <1>1, WFMin
  <1> QED
    BY <1>2, <1>3

LEMMA LeastSubset ==
  ASSUME NEW S, IsFiniteSet(S), NEW T \in SUBSET (SUBSET S), T # {}
  PROVE  \E s \in T : \A x \in s : s \ {x} \notin T
  <1>1. \A s \in SUBSET S : IsFiniteSet(s) /\ Cardinality(s) \in Nat
    BY FS_Subset, FS_CardinalityType
  <1>2. \A s \in SUBSET S : \A x \in s : Cardinality(s \ {x}) = Cardinality(s) - 1
    BY <1>1, FS_RemoveElement
  <1>3. PICK sizes : sizes = {Cardinality(s) : s \in T}
    OBVIOUS
  <1>4. sizes \in SUBSET Nat /\ sizes # {}
    BY <1>1, <1>3
  <1>5. PICK n \in sizes : \A k \in sizes : n <= k
    BY <1>4, LeastNumber
  <1>6. PICK s \in T : Cardinality(s) = n
    BY <1>3, <1>5
  <1>7. ASSUME NEW x \in s, s \ {x} \in T PROVE FALSE
    <2>1. n <= Cardinality(s \ {x})
      BY <1>3, <1>5, <1>7
    <2>2. n \in Nat
      BY <1>4, <1>5
    <2> QED
      BY <1>2, <1>6, <1>7, <2>1, <2>2
  <1> QED
    BY <1>6, <1>7

-----------------------------------------------------------------------------
(* Sums over a finite set, as MapThenSumSet adds them *)

Member(s) == CHOOSE x \in s : TRUE

SumsOf(g, f, S) ==
  /\ g \in [SUBSET S -> Nat] /\ g[{}] = 0
  /\ \A s \in SUBSET S : s # {} => g[s] = f[Member(s)] + g[s \ {Member(s)}]

LEMMA SumsExist ==
  ASSUME NEW S, IsFiniteSet(S), NEW f \in [S -> Nat]
  PROVE  \E g : SumsOf(g, f, S)
  <1> DEFINE Upto(n) == {s \in SUBSET S : Cardinality(s) <= n}
             Part(g, n) == /\ g \in [Upto(n) -> Nat] /\ g[{}] = 0
                           /\ \A s \in Upto(n) : s # {} => g[s] = f[Member(s)] + g[s \ {Member(s)}]
             Missing == {n \in Nat : ~ \E g : Part(g, n)}
  <1>1. /\ \A s \in SUBSET S : IsFiniteSet(s) /\ Cardinality(s) \in Nat
        /\ \A s \in SUBSET S : Cardinality(s) = 0 <=> s = {}
    BY FS_Subset, FS_CardinalityType, FS_EmptySet
  <1>2. \A s \in SUBSET S : s # {} => Member(s) \in s /\ Cardinality(s \ {Member(s)}) = Cardinality(s) - 1
    <2>1. \A s : s # {} => Member(s) \in s
      BY DEF Member
    <2> QED
      BY <1>1, <2>1, FS_RemoveElement
  <1>3. 0 \notin Missing
    <2>1. PICK g : g = [s \in Upto(0) |-> 0]
      OBVIOUS
    <2>2. {} \in Upto(0) /\ \A s \in Upto(0) : s = {}
      BY <1>1
    <2>3. Part(g, 0)
      BY <2>1, <2>2
    <2> QED
      BY <2>3
  <1>4. ASSUME NEW n \in Nat, n \notin Missing PROVE n + 1 \notin Missing
    <2>1. PICK g : Part(g, n)
      BY <1>4
    <2>2. PICK h : h = [s \in Upto(n + 1) |-> IF s = {} THEN 0 ELSE f[Member(s)] + g[s \ {Member(s)}]]
      OBVIOUS
    <2>3. /\ {} \in Upto(n) /\ \A s \in Upto(n) : s \in Upto(n + 1)
          /\ \A s \in Upto(n + 1) : s # {} => s \ {Member(s)} \in Upto(n) /\ f[Member(s)] \in Nat
      BY <1>1, <1>2
    <2>4. \A s \in Upto(n) : h[s] = g[s]
      BY <2>1, <2>2, <2>3
    <2>5. h \in [Upto(n + 1) -> Nat]
      BY <2>1, <2>2, <2>3
    <2>6. h[{}] = 0 /\ \A s \in Upto(n + 1) : s # {} => h[s] = f[Member(s)] + h[s \ {Member(s)}]
      BY <2>2, <2>3, <2>4
    <2>7. Part(h, n + 1)
      BY <2>5, <2>6
    <2> QED
      BY <2>7
  <1>5. Missing \in SUBSET Nat
    OBVIOUS
  <1> HIDE DEF Missing
  <1>6. Missing = {}
    <2> SUFFICES ASSUME Missing # {} PROVE FALSE
      OBVIOUS
    <2>1. PICK n \in Missing : \A k \in Missing : n <= k
      BY <1>5, LeastNumber
    <2>2. n \in Nat /\ n # 0
      BY <1>3, <1>5
    <2>3. PICK k \in Nat : n = k + 1
      BY <2>2
    <2>4. k \notin Missing
      BY <2>1, <2>3
    <2> QED
      BY <1>4, <2>3, <2>4
  <1>7. PICK n \in Nat : n = Cardinality(S)
    BY <1>1
  <1>8. PICK g : Part(g, n)
    BY <1>6 DEF Missing
  <1>9. Upto(n) = SUBSET S
    BY <1>1, <1>7, FS_Subset
  <1> QED
    BY <1>8, <1>9 DEF SumsOf

LEMMA TotalIs ==
  ASSUME NEW S, IsFiniteSet(S), NEW f \in [S -> Nat]
  PROVE  \E g : SumsOf(g, f, S) /\ MapThenSumSet(LAMBDA b : f[b], S) = g[S]
  <1> DEFINE Is(g) == g = [s \in SUBSET S |-> IF s = {} THEN 0 ELSE f[Member(s)] + g[s \ {Member(s)}]]
  <1>1. PICK k : SumsOf(k, f, S)
    BY SumsExist
  <1>2. Is(k)
    BY <1>1 DEF SumsOf
  <1>3. PICK h : h = CHOOSE g : Is(g)
    OBVIOUS
  <1>4. MapThenSumSet(LAMBDA b : f[b], S) = h[S]
    BY <1>3 DEF MapThenSumSet, MapThenFoldSet, Member
  <1> HIDE DEF Is
  <1>5. Is(h)
    BY <1>2, <1>3
  <1> USE DEF Is
  \* There is only one such function.
  <1>6. h = k
    <2> DEFINE T == {s \in SUBSET S : h[s] # k[s]}
    <2> SUFFICES ASSUME T # {} PROVE FALSE
      BY <1>2, <1>5
    <2>1. PICK s \in T : \A x \in s : s \ {x} \notin T
      BY LeastSubset
    <2>2. s # {} => Member(s) \in s
      BY DEF Member
    <2>3. s # {} => h[s \ {Member(s)}] = k[s \ {Member(s)}]
      BY <2>1, <2>2
    <2> QED
      BY <1>2, <1>5, <2>1, <2>3
  <1> QED
    BY <1>1, <1>4, <1>6

\* One number grows, and so does the sum.
LEMMA TotalGrows ==
  ASSUME NEW S, IsFiniteSet(S), NEW f \in [S -> Nat], NEW b \in S, NEW n \in Nat, NEW e \in [S -> Nat],
         \A x \in S : e[x] = f[x] + (IF x = b THEN n ELSE 0)
  PROVE  MapThenSumSet(LAMBDA x : e[x], S) = MapThenSumSet(LAMBDA x : f[x], S) + n
  <1>1. PICK g : SumsOf(g, f, S) /\ MapThenSumSet(LAMBDA x : f[x], S) = g[S]
    BY TotalIs
  <1>2. PICK h : SumsOf(h, e, S) /\ MapThenSumSet(LAMBDA x : e[x], S) = h[S]
    BY TotalIs
  <1> DEFINE More(s) == g[s] + (IF b \in s THEN n ELSE 0)
             T == {s \in SUBSET S : h[s] # More(s)}
  <1>3. T = {}
    <2> SUFFICES ASSUME T # {} PROVE FALSE
      OBVIOUS
    <2>1. PICK s \in T : \A x \in s : s \ {x} \notin T
      BY LeastSubset
    <2>2. s # {}
      <3>1. h[{}] = 0 /\ More({}) = 0
        BY <1>1, <1>2 DEF SumsOf
      <3> QED
        BY <2>1, <3>1
    <2>3. PICK x \in s : x = Member(s)
      BY <2>2 DEF Member
    <2>4. PICK rest \in SUBSET S : rest = s \ {x}
      BY <2>1
    <2>5. h[rest] = More(rest) /\ g[rest] \in Nat /\ h[rest] \in Nat /\ f[x] \in Nat
      BY <1>1, <1>2, <2>1, <2>3, <2>4 DEF SumsOf
    <2>6. g[s] = f[x] + g[rest] /\ h[s] = e[x] + h[rest]
      BY <1>1, <1>2, <2>1, <2>2, <2>3, <2>4 DEF SumsOf
    <2>7. e[x] = f[x] + (IF x = b THEN n ELSE 0)
      BY <2>1, <2>3
    <2>8. h[s] = More(s)
      BY <2>3, <2>4, <2>5, <2>6, <2>7
    <2> QED
      BY <2>1, <2>8
  <1> QED
    BY <1>1, <1>2, <1>3

LEMMA TotalOfZeros ==
  ASSUME NEW S, IsFiniteSet(S), NEW f \in [S -> Nat], \A x \in S : f[x] = 0
  PROVE  MapThenSumSet(LAMBDA x : f[x], S) = 0
  <1>1. PICK g : SumsOf(g, f, S) /\ MapThenSumSet(LAMBDA x : f[x], S) = g[S]
    BY TotalIs
  <1> DEFINE T == {s \in SUBSET S : g[s] # 0}
  <1>2. T = {}
    <2> SUFFICES ASSUME T # {} PROVE FALSE
      OBVIOUS
    <2>1. PICK s \in T : \A x \in s : s \ {x} \notin T
      BY LeastSubset
    <2>2. s # {}
      BY <1>1, <2>1 DEF SumsOf
    <2>3. PICK x \in s : x = Member(s)
      BY <2>2 DEF Member
    <2>4. g[s] = f[x] + g[s \ {x}]
      BY <1>1, <2>1, <2>2, <2>3 DEF SumsOf
    <2>5. f[x] = 0 /\ g[s \ {x}] = 0
      BY <2>1, <2>3
    <2> QED
      BY <2>1, <2>4, <2>5
  <1> QED
    BY <1>1, <1>2

-----------------------------------------------------------------------------
(* Auction *)

LEMMA TotalOfBids ==
  /\ Total(NoBids) = 0
  /\ \A old \in [Bidders -> Nat], bidder \in Bidders, n \in Nat :
       Total([old EXCEPT ![bidder] = @ + n]) = Total(old) + n
  <1>1. IsFiniteSet(Bidders)
    BY AuctionAssumption
  <1>2. Total(NoBids) = 0
    <2>1. NoBids \in [Bidders -> Nat] /\ \A b \in Bidders : NoBids[b] = 0
      BY DEF NoBids
    <2>2. PICK none \in [Bidders -> Nat] : none = NoBids
      BY <2>1
    <2>3. Total(none) = 0
      BY <1>1, <2>1, <2>2, TotalOfZeros DEF Total
    <2> QED
      BY <2>2, <2>3
  <1>3. ASSUME NEW old \in [Bidders -> Nat], NEW bidder \in Bidders, NEW n \in Nat
        PROVE  Total([old EXCEPT ![bidder] = @ + n]) = Total(old) + n
    <2>1. PICK new : new = [old EXCEPT ![bidder] = @ + n]
      OBVIOUS
    <2>2. new \in [Bidders -> Nat] /\ \A b \in Bidders : new[b] = old[b] + (IF b = bidder THEN n ELSE 0)
      BY <2>1
    <2>3. Total(new) = Total(old) + n
      BY <1>1, <2>2, TotalGrows DEF Total
    <2> QED
      BY <2>1, <2>3
  <1> QED
    BY <1>2, <1>3

\* What the hook leaves for the method that was called
Ready(a, paidOut) ==
  /\ a \in AuctionRecord /\ a.last_auction <= time
  /\ a.cycles_since_auction = Total(a.bids)
  /\ paidOut \in [Bidders -> Nat] /\ \A b \in Bidders : bidden[b] = paidOut[b] + a.bids[b]

LEMMA HookSettles ==
  ASSUME AuctionInv, NEW paid \in BOOLEAN, Settle
  PROVE  Ready(PreUpdate(auction, paid), settled')
  <1>1. /\ auction \in AuctionRecord /\ time \in Nat /\ auction.last_auction <= time
        /\ settled \in [Bidders -> Nat] /\ bidden \in [Bidders -> 0 .. MaxBid]
        /\ auction.cycles_since_auction = Total(auction.bids)
        /\ \A b \in Bidders : bidden[b] = settled[b] + auction.bids[b]
    BY DEF AuctionInv, BidsSettledOnce
  <1>2. CASE ~ CanRun(auction)
    BY <1>1, <1>2 DEF PreUpdate, Settle, Ready
  <1>3. CASE CanRun(auction)
    <2>1. PICK reset : reset = ResetBiddingState(auction)
      OBVIOUS
    <2>2. NoBids \in [Bidders -> Nat] /\ (\A b \in Bidders : NoBids[b] = 0) /\ Total(NoBids) = 0
      BY TotalOfBids DEF NoBids
    <2>3. FeeRatio(auction) \in {"zero", "one", "part"}
      BY DEF FeeRatio
    <2>4. /\ reset \in AuctionRecord /\ reset.last_auction = time /\ reset.cycles_since_auction = 0
          /\ reset.bids = NoBids
      BY <1>1, <2>1, <2>2, <2>3 DEF ResetBiddingState, AuctionRecord
    <2>5. PICK a : a = Held(auction, paid)
      OBVIOUS
    <2>6. /\ a \in AuctionRecord /\ a.last_auction = time /\ a.cycles_since_auction = 0
          /\ a.bids = NoBids
      <3>1. CASE paid = FALSE
        BY <2>1, <2>4, <2>5, <3>1 DEF Held
      <3>2. CASE paid = TRUE
        <4>1. a = [reset EXCEPT !.history = Append(@, auction.cycles_since_auction)]
          BY <2>1, <2>5, <3>2 DEF Held
        <4>2. PICK log \in Seq(Nat) : log = Append(reset.history, auction.cycles_since_auction)
          <5>1. reset.history \in Seq(Nat) /\ auction.cycles_since_auction \in Nat
            BY <1>1, <2>4 DEF AuctionRecord
          <5>2. Append(reset.history, auction.cycles_since_auction) \in Seq(Nat)
            BY <5>1
          <5> QED
            BY <5>2
        <4>3. a = [reset EXCEPT !.history = log]
          BY <4>1, <4>2
        <4> QED
          BY <2>4, <4>3 DEF AuctionRecord
      <3> QED
        BY <3>1, <3>2
    <2>7. /\ settled' \in [Bidders -> Nat]
          /\ \A b \in Bidders : settled'[b] = settled[b] + auction.bids[b]
      BY <1>1, <1>3 DEF Settle, AuctionRecord
    <2>8. \A b \in Bidders : bidden[b] = settled'[b] + a.bids[b]
      <3> SUFFICES ASSUME NEW b \in Bidders PROVE bidden[b] = settled'[b] + a.bids[b]
        OBVIOUS
      <3>1. a.bids[b] = 0 /\ settled'[b] \in Nat /\ bidden[b] = settled'[b]
        BY <1>1, <2>2, <2>6, <2>7
      <3> QED
        BY <3>1
    <2>9. PreUpdate(auction, paid) = a
      BY <1>3, <2>5 DEF PreUpdate
    <2> QED
      BY <1>1, <2>2, <2>6, <2>7, <2>8, <2>9 DEF Ready
  <1> QED
    BY <1>2, <1>3

\* A method that changes nothing of the bids, after the hook
LEMMA ReadyKeeps ==
  ASSUME AuctionInv, NEW a, Ready(a, settled'), UNCHANGED << time, bidden >>,
         auction' \in AuctionRecord, auction'.bids = a.bids,
         auction'.cycles_since_auction = a.cycles_since_auction,
         auction'.last_auction = a.last_auction
  PROVE  AuctionInv'
  <1>1. BidsSettledOnce'
    BY DEF Ready, BidsSettledOnce
  <1> QED
    BY <1>1 DEF Ready, AuctionInv

LEMMA AuctionInvInit == AuctionInit => AuctionInv
  <1> SUFFICES ASSUME AuctionInit PROVE AuctionInv
    OBVIOUS
  <1>1. /\ auction = [controller |-> Owner, min_cycles |-> MinBid, fee_ratio |-> "zero",
                      last_auction |-> 0, auction_period |-> Nanos(1),
                      cycles_since_auction |-> 0, bids |-> NoBids, history |-> << >>]
        /\ time = 0 /\ settled = NoBids /\ bidden = NoBids
    BY DEF AuctionInit
  <1>2. /\ NoBids \in [Bidders -> Nat] /\ (\A b \in Bidders : NoBids[b] = 0) /\ Total(NoBids) = 0
        /\ MaxBid \in Nat /\ MinBid \in Nat /\ Owner \in Bidders
    BY TotalOfBids, AuctionAssumption DEF NoBids
  <1>3. NoBids \in [Bidders -> 0 .. MaxBid]
    BY <1>2 DEF NoBids
  <1>4. Nanos(1) \in Nat /\ << >> \in Seq(Nat)
    BY NanosType
  <1>5. auction \in AuctionRecord
    BY <1>1, <1>2, <1>4 DEF AuctionRecord
  <1>6. BidsSettledOnce
    BY <1>1, <1>2 DEF BidsSettledOnce
  <1> QED
    BY <1>1, <1>2, <1>3, <1>5, <1>6 DEF AuctionInv

LEMMA AuctionInvNext == AuctionInv /\ [AuctionNext]_auctionVars => AuctionInv'
  <1> SUFFICES ASSUME AuctionInv, [AuctionNext]_auctionVars PROVE AuctionInv'
    OBVIOUS
  <1>1. /\ auction \in AuctionRecord /\ time \in Nat /\ auction.last_auction <= time
        /\ settled \in [Bidders -> Nat] /\ bidden \in [Bidders -> 0 .. MaxBid] /\ MaxBid \in Nat
    BY AuctionAssumption DEF AuctionInv
  <1>2. CASE UNCHANGED auctionVars \/ RunAuctionTooEarly \/ AuctionTick
    <2>1. UNCHANGED << auction, settled, bidden >> /\ (time' = time \/ time' = time + 1)
      BY <1>2 DEF auctionVars, RunAuctionTooEarly, AuctionTick
    <2>2. BidsSettledOnce'
      BY <2>1 DEF AuctionInv, BidsSettledOnce
    <2>3. time' \in Nat /\ auction'.last_auction <= time'
      <3>1. auction.last_auction \in Nat
        BY <1>1 DEF AuctionRecord
      <3> QED
        BY <1>1, <2>1, <3>1
    <2> QED
      BY <1>1, <2>1, <2>2, <2>3 DEF AuctionInv
  <1>3. ASSUME NEW paid \in BOOLEAN, RunAuction(paid) \/ OnlyHook(paid) PROVE AuctionInv'
    <2>1. /\ auction' = PreUpdate(auction, paid) /\ Settle /\ UNCHANGED << time, bidden >>
      BY <1>3 DEF RunAuction, OnlyHook, PreUpdate
    <2>2. Ready(PreUpdate(auction, paid), settled')
      BY <2>1, HookSettles
    <2> QED
      BY <2>1, <2>2, ReadyKeeps DEF Ready
  <1>4. ASSUME NEW paid \in BOOLEAN, NEW bidder \in Bidders, NEW n \in Bids, BidCycles(bidder, n, paid)
        PROVE  AuctionInv'
    <2>1. PICK a : a = PreUpdate(auction, paid)
      OBVIOUS
    <2>2. Ready(a, settled')
      BY <1>4, <2>1, HookSettles DEF BidCycles
    <2>3. n \in Nat /\ a \in AuctionRecord /\ a.bids \in [Bidders -> Nat] /\ a.cycles_since_auction \in Nat
      BY <2>2, AuctionAssumption DEF Ready, AuctionRecord
    <2>4. /\ auction' = [a EXCEPT !.cycles_since_auction = @ + n, !.bids[bidder] = @ + n]
          /\ bidden' = [bidden EXCEPT ![bidder] = @ + n] /\ time' = time /\ bidden[bidder] + n <= MaxBid
      BY <1>4, <2>1 DEF BidCycles
    <2>5. PICK gathered \in Nat, bids \in [Bidders -> Nat] :
            gathered = a.cycles_since_auction + n /\ bids = [a.bids EXCEPT ![bidder] = @ + n]
      <3>1. PICK old \in [Bidders -> Nat] : old = a.bids
        BY <2>3
      <3>2. [old EXCEPT ![bidder] = @ + n] \in [Bidders -> Nat] /\ a.cycles_since_auction + n \in Nat
        BY <2>3
      <3> QED
        BY <3>1, <3>2
    <2>6. auction' = [a EXCEPT !.cycles_since_auction = gathered, !.bids = bids]
      BY <2>3, <2>4, <2>5 DEF AuctionRecord
    <2>7. /\ auction' \in AuctionRecord /\ auction'.bids = bids /\ auction'.cycles_since_auction = gathered
          /\ auction'.last_auction = a.last_auction
      BY <2>3, <2>6 DEF AuctionRecord
    <2>8. gathered = Total(bids)
      BY <2>2, <2>3, <2>5, TotalOfBids DEF Ready
    <2>9. \A b \in Bidders : bidden'[b] = settled'[b] + bids[b] /\ bidden'[b] \in 0 .. MaxBid
      <3> SUFFICES ASSUME NEW b \in Bidders
                   PROVE  bidden'[b] = settled'[b] + bids[b] /\ bidden'[b] \in 0 .. MaxBid
        OBVIOUS
      <3>1. PICK was \in 0 .. MaxBid, out \in Nat, in \in Nat :
              was = bidden[b] /\ out = settled'[b] /\ in = a.bids[b] /\ was = out + in
        BY <1>1, <2>2, <2>3 DEF Ready
      <3>2. bidden'[b] = (IF b = bidder THEN was + n ELSE was) /\ bids[b] = IF b = bidder THEN in + n ELSE in
        BY <1>1, <2>3, <2>4, <2>5, <3>1
      <3>3. b = bidder => was + n <= MaxBid
        BY <2>4, <3>1
      <3> QED
        BY <1>1, <2>3, <3>1, <3>2, <3>3
    <2>10. BidsSettledOnce'
      BY <2>7, <2>8, <2>9 DEF BidsSettledOnce
    <2>11. bidden' \in [Bidders -> 0 .. MaxBid]
      BY <1>1, <2>4, <2>9
    <2> QED
      BY <1>1, <2>2, <2>4, <2>7, <2>10, <2>11 DEF AuctionInv, Ready
  <1>5. ASSUME NEW paid \in BOOLEAN, NEW caller, NEW a, a = PreUpdate(auction, paid), NEW changed,
               changed \in AuctionRecord, changed.bids = a.bids,
               changed.cycles_since_auction = a.cycles_since_auction,
               changed.last_auction = a.last_auction, Authorized(caller, paid, changed)
        PROVE  AuctionInv'
    <2>1. auction' = changed /\ Settle /\ UNCHANGED << time, bidden >>
      BY <1>5 DEF Authorized
    <2>2. Ready(a, settled')
      BY <1>5, <2>1, HookSettles
    <2> QED
      BY <1>5, <2>1, <2>2, ReadyKeeps
  <1>6. ASSUME NEW paid \in BOOLEAN, NEW caller \in Bidders,
               \/ \E c \in Bidders : SetController(caller, c, paid)
               \/ \E n \in {0, MinBid} : SetMinCycles(caller, n, paid)
               \/ \E s \in Seconds : SetAuctionPeriod(caller, s, paid)
        PROVE  AuctionInv'
    <2>1. PICK a : a = PreUpdate(auction, paid)
      OBVIOUS
    <2>2. a \in AuctionRecord
      <3>1. Settle
        BY <1>6 DEF SetController, SetMinCycles, SetAuctionPeriod, Authorized
      <3> QED
        BY <2>1, <3>1, HookSettles DEF Ready
    <2>3. CASE \E c \in Bidders : SetController(caller, c, paid)
      <3>1. PICK c \in Bidders : Authorized(caller, paid, [a EXCEPT !.controller = c])
        BY <2>1, <2>3 DEF SetController
      <3>2. PICK changed : changed = [a EXCEPT !.controller = c]
        OBVIOUS
      <3>3. /\ changed \in AuctionRecord /\ changed.bids = a.bids
            /\ changed.cycles_since_auction = a.cycles_since_auction
            /\ changed.last_auction = a.last_auction
        BY <2>2, <3>2 DEF AuctionRecord
      <3> QED
        BY <1>5, <2>1, <3>1, <3>2, <3>3
    <2>4. CASE \E n \in {0, MinBid} : SetMinCycles(caller, n, paid)
      <3>1. PICK n \in {0, MinBid} : Authorized(caller, paid, [a EXCEPT !.min_cycles = n])
        BY <2>1, <2>4 DEF SetMinCycles
      <3>2. PICK changed : changed = [a EXCEPT !.min_cycles = n]
        OBVIOUS
      <3>3. n \in Nat
        BY AuctionAssumption
      <3>4. /\ changed \in AuctionRecord /\ changed.bids = a.bids
            /\ changed.cycles_since_auction = a.cycles_since_auction
            /\ changed.last_auction = a.last_auction
        BY <2>2, <3>2, <3>3 DEF AuctionRecord
      <3> QED
        BY <1>5, <2>1, <3>1, <3>2, <3>4
    <2>5. CASE \E s \in Seconds : SetAuctionPeriod(caller, s, paid)
      <3>1. PICK s \in Seconds : Authorized(caller, paid, [a EXCEPT !.auction_period = Nanos(s)])
        BY <2>1, <2>5 DEF SetAuctionPeriod
      <3>2. PICK changed : changed = [a EXCEPT !.auction_period = Nanos(s)]
        OBVIOUS
      <3>3. Nanos(s) \in Nat
        BY NanosType, AuctionAssumption
      <3>4. /\ changed \in AuctionRecord /\ changed.bids = a.bids
            /\ changed.cycles_since_auction = a.cycles_since_auction
            /\ changed.last_auction = a.last_auction
        BY <2>2, <3>2, <3>3 DEF AuctionRecord
      <3> QED
        BY <1>5, <2>1, <3>1, <3>2, <3>4
    <2> QED
      BY <1>6, <2>3, <2>4, <2>5
  <1> QED
    BY <1>2, <1>3, <1>4, <1>6 DEF AuctionNext

\* Every cycle that bid_cycles accepted is in the bids of this round or was in
\* one auction, with its bidder, and the total that bidding_info shows is the
\* sum of the bids: for any number of bidders, also when the hook holds the
\* auction in the call that bids.
THEOREM BidsAreSettledOnce == AuctionSpec => []BidsSettledOnce
  <1>1. AuctionInv => BidsSettledOnce
    BY DEF AuctionInv
  <1> QED
    BY <1>1, AuctionInvInit, AuctionInvNext, PTL DEF AuctionSpec

\* A bid is in the auction in whole, and is not more than was sent.
LEMMA AuctionInvTypes == AuctionInv => AuctionTypeOK
  <1> SUFFICES ASSUME AuctionInv PROVE AuctionTypeOK
    OBVIOUS
  <1>1. /\ auction \in AuctionRecord /\ settled \in [Bidders -> Nat] /\ bidden \in [Bidders -> 0 .. MaxBid]
        /\ \A b \in Bidders : bidden[b] = settled[b] + auction.bids[b]
    BY DEF AuctionInv, BidsSettledOnce
  <1>2. auction.bids \in [Bidders -> Nat]
    BY <1>1 DEF AuctionRecord
  <1>3. \A b \in Bidders : auction.bids[b] \in 0 .. MaxBid
    <2> SUFFICES ASSUME NEW b \in Bidders PROVE auction.bids[b] \in 0 .. MaxBid
      OBVIOUS
    <2>1. PICK was \in 0 .. MaxBid, out \in Nat, in \in Nat :
            was = bidden[b] /\ out = settled[b] /\ in = auction.bids[b] /\ was = out + in
      BY <1>1, <1>2
    <2>2. MaxBid \in Nat
      BY AuctionAssumption
    <2>3. in \in 0 .. MaxBid
      BY <2>1, <2>2
    <2> QED
      BY <2>1, <2>3
  <1>4. auction.bids \in [Bidders -> 0 .. MaxBid]
    BY <1>2, <1>3
  <1> QED
    BY <1>1, <1>4 DEF AuctionInv, AuctionTypeOK, AuctionRecord

\* No bid is more than was sent, and no auction was held in the future.
THEOREM AuctionTypes == AuctionSpec => []AuctionTypeOK
  BY AuctionInvTypes, AuctionInvInit, AuctionInvNext, PTL DEF AuctionSpec

-----------------------------------------------------------------------------
(* Folds over a finite set, as MapThenFoldSet computes them *)

Folding(g, S, X, base, F, pick) ==
  /\ g \in [SUBSET S -> X] /\ g[{}] = base
  /\ \A s \in SUBSET S : s # {} => g[s] = F[<< pick[s], g[s \ {pick[s]}] >>]

\* What is known of the function that CHOOSE returns
Follows(h, S, X, base, F, pick) ==
  /\ h[{}] = base
  /\ \A s \in SUBSET S :
       s # {} /\ h[s \ {pick[s]}] \in X => h[s] = F[<< pick[s], h[s \ {pick[s]}] >>]

Picks(pick, S) == \A s \in SUBSET S : s # {} => pick[s] \in s

PicksMax(pick, n) == \A s \in SUBSET (1 .. n) : pick[s] = Max(s)

LEMMA FoldExists ==
  ASSUME NEW S, IsFiniteSet(S), NEW X, NEW base \in X, NEW F \in [S \X X -> X],
         NEW pick, Picks(pick, S)
  PROVE  \E g : Folding(g, S, X, base, F, pick)
  <1> DEFINE Upto(n) == {s \in SUBSET S : Cardinality(s) <= n}
             Step(g, s) == F[<< pick[s], g[s \ {pick[s]}] >>]
             Part(g, n) == /\ g \in [Upto(n) -> X] /\ g[{}] = base
                           /\ \A s \in Upto(n) : s # {} => g[s] = Step(g, s)
             Missing == {n \in Nat : ~ \E g : Part(g, n)}
  <1>1. /\ \A s \in SUBSET S : IsFiniteSet(s) /\ Cardinality(s) \in Nat
        /\ \A s \in SUBSET S : Cardinality(s) = 0 <=> s = {}
    BY FS_Subset, FS_CardinalityType, FS_EmptySet
  <1>2. \A s \in SUBSET S : s # {} => pick[s] \in s /\ Cardinality(s \ {pick[s]}) = Cardinality(s) - 1
    BY <1>1, FS_RemoveElement DEF Picks
  <1>3. 0 \notin Missing
    <2>1. PICK g : g = [s \in Upto(0) |-> base]
      OBVIOUS
    <2>2. {} \in Upto(0) /\ \A s \in Upto(0) : s = {}
      BY <1>1
    <2>3. Part(g, 0)
      BY <2>1, <2>2
    <2> QED
      BY <2>3
  <1>4. ASSUME NEW n \in Nat, n \notin Missing PROVE n + 1 \notin Missing
    <2>1. PICK g : Part(g, n)
      BY <1>4
    <2>2. PICK h : h = [s \in Upto(n + 1) |-> IF s = {} THEN base ELSE Step(g, s)]
      OBVIOUS
    <2>3. /\ {} \in Upto(n) /\ \A s \in Upto(n) : s \in Upto(n + 1)
          /\ \A s \in Upto(n + 1) : s # {} => s \ {pick[s]} \in Upto(n) /\ pick[s] \in S
      BY <1>1, <1>2
    <2>4. \A s \in Upto(n) : h[s] = g[s]
      BY <2>1, <2>2, <2>3
    <2>5. \A s \in Upto(n + 1) : s # {} => Step(g, s) \in X
      <3> SUFFICES ASSUME NEW s \in Upto(n + 1), s # {} PROVE Step(g, s) \in X
        OBVIOUS
      <3>1. PICK rest \in Upto(n) : rest = s \ {pick[s]}
        BY <2>3
      <3>2. g[rest] \in X /\ pick[s] \in S
        BY <2>1, <2>3
      <3> QED
        BY <3>1, <3>2
    <2>6. h \in [Upto(n + 1) -> X]
      BY <2>2, <2>5
    <2>7. h[{}] = base /\ \A s \in Upto(n + 1) : s # {} => h[s] = Step(h, s)
      BY <2>2, <2>3, <2>4
    <2>8. Part(h, n + 1)
      BY <2>6, <2>7
    <2> QED
      BY <2>8
  <1>5. Missing \in SUBSET Nat
    OBVIOUS
  <1> HIDE DEF Missing
  <1>6. Missing = {}
    <2> SUFFICES ASSUME Missing # {} PROVE FALSE
      OBVIOUS
    <2>1. PICK n \in Missing : \A k \in Missing : n <= k
      BY <1>5, LeastNumber
    <2>2. n \in Nat /\ n # 0
      BY <1>3, <1>5
    <2>3. PICK k \in Nat : n = k + 1
      BY <2>2
    <2>4. k \notin Missing
      BY <2>1, <2>3
    <2> QED
      BY <1>4, <2>3, <2>4
  <1>7. PICK n \in Nat : n = Cardinality(S)
    BY <1>1
  <1>8. PICK g : Part(g, n)
    BY <1>6 DEF Missing
  <1>9. Upto(n) = SUBSET S
    BY <1>1, <1>7, FS_Subset
  <1> QED
    BY <1>8, <1>9 DEF Folding

\* The maximum of the numbers up to n is n.
LEMMA MaxUpto ==
  ASSUME NEW n \in Nat
  PROVE  /\ \A s \in SUBSET (1 .. n) : s # {} => Max(s) \in s
         /\ \A k \in 1 .. n : Max(1 .. k) = k
  <1>1. ASSUME NEW s \in SUBSET (1 .. n), s # {} PROVE Max(s) \in s
    <2> DEFINE T == {n - x : x \in s}
    <2>a. \A x \in s : n - x \in Nat
      OBVIOUS
    <2>b. PICK x0 : x0 \in s
      BY <1>1
    <2>1. T \in SUBSET Nat /\ T # {}
      <3>1. n - x0 \in T
        BY <2>b
      <3>2. \A y \in T : y \in Nat
        BY <2>a
      <3> QED
        BY <3>1, <3>2
    <2> HIDE DEF T
    <2>2. PICK least \in T : \A y \in T : least <= y
      BY <2>1, LeastNumber
    <2> USE DEF T
    <2>3. PICK x \in s : least = n - x
      BY <2>2
    <2>4. \A y \in s : x >= y
      BY <2>2, <2>3
    <2> QED
      BY <2>4 DEF Max
  <1>2. ASSUME NEW k \in 1 .. n PROVE Max(1 .. k) = k
    BY DEF Max
  <1> QED
    BY <1>1, <1>2

\* A fold from the left, one element after the other
LEMMA FoldSteps ==
  ASSUME NEW n \in Nat, NEW X, NEW base, NEW F, NEW g, NEW pick,
         PicksMax(pick, n),
         Folding(g, 1 .. n, X, base, F, pick)
  PROVE  /\ g[1 .. 0] = base /\ \A k \in 0 .. n : g[1 .. k] \in X
         /\ \A k \in 1 .. n : g[1 .. k] = F[<< k, g[1 .. (k - 1)] >>]
  <1>1. g[1 .. 0] = base
    <2>1. 1 .. 0 = {}
      OBVIOUS
    <2> QED
      BY <2>1 DEF Folding
  <1>2. ASSUME NEW k \in 0 .. n PROVE g[1 .. k] \in X
    <2>1. PICK s \in SUBSET (1 .. n) : s = 1 .. k
      OBVIOUS
    <2> QED
      BY <2>1 DEF Folding
  <1>3. ASSUME NEW k \in 1 .. n PROVE g[1 .. k] = F[<< k, g[1 .. (k - 1)] >>]
    <2>1. 1 .. k \in SUBSET (1 .. n) /\ 1 .. k # {}
      <3>1. k \in 1 .. k /\ \A i \in 1 .. k : i \in 1 .. n
        OBVIOUS
      <3> QED
        BY <3>1
    <2>2. Max(1 .. k) = k
      BY MaxUpto
    <2>3. PICK s \in SUBSET (1 .. n) : s = 1 .. k /\ s # {} /\ Max(s) = k
      BY <2>1, <2>2
    <2>4. pick[s] = k
      BY <2>3 DEF PicksMax
    <2>5. s \ {k} = 1 .. (k - 1)
      BY <2>3
    <2>6. g[s] = F[<< pick[s], g[s \ {pick[s]}] >>]
      BY <2>3 DEF Folding
    <2> QED
      BY <2>3, <2>4, <2>5, <2>6
  <1> QED
    BY <1>1, <1>2, <1>3


\* The function that a fold goes through is the only one.
LEMMA FoldUnique ==
  ASSUME NEW S, IsFiniteSet(S), NEW X, NEW base, NEW F, NEW pick, NEW g, NEW h,
         Picks(pick, S), Folding(g, S, X, base, F, pick), Follows(h, S, X, base, F, pick)
  PROVE  \A s \in SUBSET S : h[s] = g[s]
  <1> DEFINE T == {s \in SUBSET S : h[s] # g[s]}
  <1> SUFFICES ASSUME T # {} PROVE FALSE
    OBVIOUS
  <1>1. PICK s \in T : \A x \in s : s \ {x} \notin T
    BY LeastSubset
  <1>2. s # {}
    BY <1>1 DEF Folding, Follows
  <1>3. PICK x \in s : x = pick[s]
    BY <1>1, <1>2 DEF Picks
  <1>4. PICK rest \in SUBSET S : rest = s \ {x}
    BY <1>1
  <1>5. h[rest] = g[rest] /\ g[rest] \in X
    BY <1>1, <1>3, <1>4 DEF Folding
  <1>6. h[s] = F[<< x, h[rest] >>] /\ g[s] = F[<< x, g[rest] >>]
    BY <1>1, <1>2, <1>3, <1>4, <1>5 DEF Folding, Follows
  <1> QED
    BY <1>1, <1>5, <1>6

-----------------------------------------------------------------------------
(* VersionedStorage *)

LEMMA UpgradeToType ==
  ASSUME NEW s \in States, NEW v \in Versions
  PROVE  UpgradeTo(v, s) \in States
  BY DEF UpgradeTo, States

\* The upgrades from one version to another, as a sequence
Chain(version, n) == [i \in 1 .. n |-> version + i]

LEMMA ChainGrows ==
  ASSUME NEW version \in Versions, NEW n \in Nat, version + n <= Newest
  PROVE  /\ Chain(version, n) \in Seq(Versions) /\ Len(Chain(version, n)) = n
         /\ \A u \in Seq(Versions) :
              n # 0 => u \o Chain(version, n) = Append(u \o Chain(version, n - 1), version + n)
  <1>0. Newest \in Nat /\ version \in Nat
    BY StorageAssumption DEF Versions
  <1>1. \A k \in 0 .. n : Chain(version, k) \in Seq(Versions) /\ Len(Chain(version, k)) = k
    BY <1>0 DEF Chain, Versions
  <1>2. ASSUME NEW u \in Seq(Versions), n # 0
        PROVE  u \o Chain(version, n) = Append(u \o Chain(version, n - 1), version + n)
    <2>1. PICK c \in Seq(Versions), d \in Seq(Versions) :
            c = Chain(version, n) /\ d = Chain(version, n - 1) /\ Len(c) = n /\ Len(d) = n - 1
      BY <1>1, <1>2
    <2>2. c = Append(d, version + n)
      BY <1>0, <1>2, <2>1 DEF Chain
    <2>3. version + n \in Versions
      BY <1>0, <1>2 DEF Versions
    <2>4. u \o Append(d, version + n) = Append(u \o d, version + n)
      BY <2>1, <2>3
    <2> QED
      BY <2>1, <2>2, <2>4
  <1> QED
    BY <1>1, <1>2

\* recursive_upgrade applies each upgrade once and in order.
LEMMA UpgradesInOrder ==
  ASSUME NEW to \in Versions, NEW version \in Versions, version <= to, NEW s \in States
  PROVE  RecursiveUpgrade(to, version, s) =
           [s EXCEPT !.upgrades = @ \o Chain(version, to - version)]
  <1>0. Newest \in Nat /\ version \in Nat /\ to \in Nat /\ to <= Newest
    BY StorageAssumption DEF Versions
  <1>1. PICK n \in Nat : n = to - version
    BY <1>0
  <1>2. PICK seq : seq = [i \in 1 .. n |-> version + i]
    OBVIOUS
  <1>3. /\ DOMAIN seq = 1 .. n /\ \A i \in 1 .. n : seq[i] \in Versions /\ seq[i] = version + i
    BY <1>0, <1>1, <1>2 DEF Versions
  <1>4. IsFiniteSet(1 .. n)
    BY FS_Interval
  <1>5. PICK F : F = [p \in (1 .. n) \X States |-> UpgradeTo(seq[p[1]], p[2])]
    OBVIOUS
  <1>6. F \in [(1 .. n) \X States -> States]
    BY <1>3, <1>5, UpgradeToType
  <1>7. PICK pick : pick = [t \in SUBSET (1 .. n) |-> Max(t)]
    OBVIOUS
  <1>8. Picks(pick, 1 .. n) /\ PicksMax(pick, n)
    BY <1>7, MaxUpto DEF Picks, PicksMax
  <1>9. PICK g : Folding(g, 1 .. n, States, s, F, pick)
    BY <1>4, <1>6, <1>8, FoldExists
  <1> DEFINE Is(h) == h = [t \in SUBSET (1 .. n) |-> IF t = {} THEN s ELSE UpgradeTo(seq[Max(t)], h[t \ {Max(t)}])]
  <1>10. Is(g)
    <2>1. ASSUME NEW t \in SUBSET (1 .. n)
          PROVE  g[t] = IF t = {} THEN s ELSE UpgradeTo(seq[Max(t)], g[t \ {Max(t)}])
      <3>1. CASE t = {}
        BY <1>9, <3>1 DEF Folding
      <3>2. CASE t # {}
        <4>1. PICK x \in 1 .. n : x = Max(t) /\ x = pick[t]
          BY <1>8, <3>2 DEF Picks, PicksMax
        <4>2. PICK rest \in SUBSET (1 .. n) : rest = t \ {x}
          OBVIOUS
        <4>3. g[rest] \in States /\ g[t] = F[<< x, g[rest] >>]
          BY <1>9, <3>2, <4>1, <4>2 DEF Folding
        <4>4. F[<< x, g[rest] >>] = UpgradeTo(seq[x], g[rest])
          BY <1>5, <4>3
        <4> QED
          BY <3>2, <4>1, <4>2, <4>3, <4>4
      <3> QED
        BY <3>1, <3>2
    <2> QED
      BY <1>9, <2>1 DEF Folding
  <1>11. PICK h : h = CHOOSE f : Is(f)
    OBVIOUS
  <1>12. RecursiveUpgrade(to, version, s) = h[1 .. n]
    <2>1. RecursiveUpgrade(to, version, s) = FoldLeft(LAMBDA t, v : UpgradeTo(v, t), s, seq)
      BY <1>1, <1>2 DEF RecursiveUpgrade
    <2> QED
      BY <1>3, <1>11, <2>1 DEF FoldLeft, MapThenFoldSet
  <1> HIDE DEF Is
  <1>13. Is(h)
    BY <1>10, <1>11
  <1>14. \A t \in SUBSET (1 .. n) : h[t] = g[t]
    <2>1. h[{}] = s
      BY <1>13 DEF Is
    <2>2. ASSUME NEW t \in SUBSET (1 .. n), t # {}, h[t \ {pick[t]}] \in States
          PROVE  h[t] = F[<< pick[t], h[t \ {pick[t]}] >>]
      <3>1. PICK x \in 1 .. n : x = Max(t) /\ x = pick[t]
        BY <1>8, <2>2 DEF Picks, PicksMax
      <3>2. h[t] = UpgradeTo(seq[x], h[t \ {x}])
        BY <1>13, <2>2, <3>1 DEF Is
      <3>3. F[<< x, h[t \ {x}] >>] = UpgradeTo(seq[x], h[t \ {x}])
        BY <1>5, <2>2, <3>1
      <3> QED
        BY <3>1, <3>2, <3>3
    <2>3. Follows(h, 1 .. n, States, s, F, pick)
      BY <2>1, <2>2 DEF Follows
    <2>4. PICK S : S = 1 .. n
      OBVIOUS
    <2>5. IsFiniteSet(S) /\ Picks(pick, S)
      BY <1>4, <1>8, <2>4
    <2>6. Folding(g, S, States, s, F, pick) /\ Follows(h, S, States, s, F, pick)
      BY <1>9, <2>3, <2>4
    <2>7. \A t \in SUBSET S : h[t] = g[t]
      BY <2>5, <2>6, FoldUnique
    <2> QED
      BY <2>4, <2>7
  <1>15. /\ g[1 .. 0] = s /\ \A k \in 0 .. n : g[1 .. k] \in States
         /\ \A k \in 1 .. n : g[1 .. k] = F[<< k, g[1 .. (k - 1)] >>]
    BY <1>8, <1>9, FoldSteps
  <1> DEFINE After(k) == [s EXCEPT !.upgrades = @ \o Chain(version, k)]
             T == {k \in 0 .. n : g[1 .. k] # After(k)}
  <1>16. T = {}
    <2> SUFFICES ASSUME T # {} PROVE FALSE
      OBVIOUS
    <2>1. T \in SUBSET Nat
      OBVIOUS
    <2> HIDE DEF T
    <2>2. PICK k \in T : \A y \in T : k <= y
      BY <2>1, LeastNumber
    <2>3. k # 0
      <3>1. After(0) = s
        <4>1. Chain(version, 0) = << >> /\ s.upgrades \in Seq(Versions)
          BY DEF Chain, States
        <4>2. s.upgrades \o << >> = s.upgrades
          BY <4>1
        <4> QED
          BY <4>1, <4>2 DEF States
      <3> QED
        BY <1>15, <2>2, <3>1 DEF T
    <2>4. PICK j \in 0 .. n : j = k - 1 /\ k \in 1 .. n
      BY <2>2, <2>3 DEF T
    <2>5. g[1 .. j] = After(j)
      <3>1. j \notin T
        BY <2>1, <2>2, <2>4
      <3> QED
        BY <3>1 DEF T
    <2>6. g[1 .. k] = UpgradeTo(version + k, After(j))
      <3>1. g[1 .. j] \in States /\ g[1 .. k] = F[<< k, g[1 .. j] >>]
        BY <1>15, <2>4
      <3>2. F[<< k, g[1 .. j] >>] = UpgradeTo(seq[k], g[1 .. j])
        BY <1>5, <2>4, <3>1
      <3> QED
        BY <1>3, <2>4, <2>5, <3>1, <3>2
    <2>7. s.upgrades \o Chain(version, k) = Append(s.upgrades \o Chain(version, j), version + k)
      <3>1. s.upgrades \in Seq(Versions) /\ version + k <= Newest /\ k \in Nat /\ k # 0
        BY <1>0, <1>1, <2>4 DEF States
      <3> QED
        BY <2>4, <3>1, ChainGrows
    <2>8. UpgradeTo(version + k, After(j)) = After(k)
      BY <2>7 DEF UpgradeTo, States
    <2> QED
      BY <2>2, <2>6, <2>8 DEF T
  <1>17. 1 .. n \in SUBSET (1 .. n) /\ n \in 0 .. n
    OBVIOUS
  <1> QED
    BY <1>1, <1>12, <1>14, <1>16, <1>17


LEMMA ExactQuotient ==
  ASSUME NEW q \in Nat, NEW p \in Nat \ {0}
  PROVE  (q * p) \div p = q /\ (q * p) % p = 0
  <1>1. PICK x \in Nat : x = q * p
    BY Z3
  <1> DEFINE d == x \div p
             r == x % p
  <1>2. d \in Int /\ r \in 0 .. p - 1 /\ x = p * d + r
    BY Z3
  <1> HIDE DEF d, r
  <1>3. ASSUME d <= q - 1 PROVE FALSE
    <2>1. p * d <= p * (q - 1)
      BY <1>2, <1>3, Z3
    <2>2. p * (q - 1) = x - p
      BY <1>1, Z3
    <2> QED
      BY <1>2, <2>1, <2>2
  <1>4. ASSUME d >= q + 1 PROVE FALSE
    <2>1. p * d >= p * (q + 1)
      BY <1>2, <1>4, Z3
    <2>2. p * (q + 1) = x + p
      BY <1>1, Z3
    <2> QED
      BY <1>2, <2>1, <2>2
  <1>5. d = q
    BY <1>2, <1>3, <1>4
  <1>6. p * d = x
    BY <1>1, <1>5, Z3
  <1>7. r = 0
    BY <1>2, <1>6
  <1> QED
    BY <1>1, <1>5, <1>7 DEF d, r

Pages(m) == m \in Seq(Cell) /\ \E q \in 0 .. MaxPages : Len(m) = q * PageCells

\* stable_grow adds pages of zeros, or fails.
LEMMA GrowAddsZeros ==
  ASSUME NEW m, Pages(m), NEW pages \in Nat, StableGrow(m, pages) # << >>
  PROVE  /\ Pages(StableGrow(m, pages)) /\ Len(StableGrow(m, pages)) = Len(m) + pages * PageCells
         /\ \A i \in 1 .. Len(m) : StableGrow(m, pages)[i] = m[i]
         /\ \A i \in DOMAIN StableGrow(m, pages) : i > Len(m) => StableGrow(m, pages)[i] = ZeroCell
  <1>1. PICK P \in Nat \ {0} : P = PageCells /\ MaxPages \in Nat
    BY StorageAssumption
  <1>2. PICK q \in 0 .. MaxPages : Len(m) = q * P /\ m \in Seq(Cell)
    BY <1>1 DEF Pages
  <1>3. StableSize(m) = q
    BY <1>1, <1>2, ExactQuotient DEF StableSize
  <1>4. q + pages <= MaxPages
    BY <1>1, <1>3 DEF StableGrow
  <1>5. PICK added \in Nat : added = pages * P
    BY <1>1, Z3
  <1>6. PICK zeros : zeros = [i \in 1 .. added |-> ZeroCell]
    OBVIOUS
  <1>7. zeros \in Seq(Cell) /\ Len(zeros) = added
    BY <1>6 DEF Cell
  <1>8. StableGrow(m, pages) = m \o zeros
    BY <1>1, <1>3, <1>4, <1>5, <1>6 DEF StableGrow
  <1>9. PICK n : n = m \o zeros
    OBVIOUS
  <1>10. /\ n \in Seq(Cell) /\ Len(n) = Len(m) + added
         /\ \A i \in 1 .. Len(m) : n[i] = m[i]
         /\ \A i \in 1 .. Len(n) : i > Len(m) => n[i] = zeros[i - Len(m)]
    BY <1>2, <1>7, <1>9, ConcatProperties
  <1>11. \A i \in DOMAIN n : i > Len(m) => n[i] = ZeroCell
    <2> SUFFICES ASSUME NEW i \in DOMAIN n, i > Len(m) PROVE n[i] = ZeroCell
      OBVIOUS
    <2>1. i \in 1 .. Len(n) /\ Len(m) \in Nat
      BY <1>2, <1>10
    <2>2. i - Len(m) \in 1 .. added
      BY <1>10, <2>1
    <2> QED
      BY <1>6, <1>10, <2>1, <2>2
  <1>12. q + pages \in 0 .. MaxPages /\ Len(n) = (q + pages) * P
    <2>1. (q + pages) * P = q * P + pages * P
      BY <1>1, Z3
    <2> QED
      BY <1>1, <1>2, <1>4, <1>5, <1>10, <2>1
  <1>13. Pages(n)
    BY <1>1, <1>10, <1>12 DEF Pages
  <1> QED
    BY <1>1, <1>5, <1>8, <1>9, <1>10, <1>11, <1>13

\* StableWriter::write, if it succeeds, leaves the cells and what is before them.
LEMMA WriteCellsWrites ==
  ASSUME NEW m, Pages(m), NEW offset \in 0 .. Len(m), NEW cells \in Seq(Cell), cells # << >>,
         NEW w, w = WriteCells(m, offset, cells), w # << >>
  PROVE  /\ Pages(w) /\ Len(w) >= offset + Len(cells)
         /\ \A i \in 1 .. offset : w[i] = m[i]
         /\ \A i \in 1 .. Len(cells) : w[offset + i] = cells[i]
  <1>1. PICK P \in Nat \ {0} : P = PageCells /\ MaxPages \in Nat
    BY StorageAssumption
  <1>2. PICK L \in Nat : L = Len(m) /\ m \in Seq(Cell) /\ offset \in Nat /\ offset <= L
    BY DEF Pages
  <1>3. PICK n \in Nat \ {0} : n = Len(cells)
    BY EmptySeq, LenProperties
  <1>4. PICK more \in Nat : more = n \div P + 1 /\ more * P >= n
    <2> DEFINE d == n \div P
               r == n % P
    <2>1. d \in Int /\ r \in 0 .. P - 1 /\ n = P * d + r
      BY <1>3, Z3
    <2> HIDE DEF d, r
    <2>2. ASSUME d <= -1 PROVE FALSE
      <3>1. P * d <= -P
        BY <2>1, <2>2, Z3
      <3> QED
        BY <1>3, <2>1, <3>1
    <2>3. d + 1 \in Nat
      BY <2>1, <2>2
    <2>4. (d + 1) * P = P * d + P
      BY <2>1, Z3
    <2>5. (d + 1) * P >= n
      BY <1>3, <2>1, <2>4
    <2> QED
      BY <2>3, <2>5 DEF d
  <1>5. PICK grown : grown = IF offset + n > L THEN StableGrow(m, more) ELSE m
    OBVIOUS
  <1>6. w = [i \in DOMAIN grown |->
               IF i > offset /\ i <= offset + n THEN cells[i - offset] ELSE grown[i]]
    BY <1>1, <1>2, <1>3, <1>4, <1>5 DEF WriteCells
  <1>7. grown # << >>
    <2> SUFFICES ASSUME grown = << >> PROVE FALSE
      OBVIOUS
    <2>1. DOMAIN w = {}
      BY <1>6
    <2>2. w = << >>
      BY <1>6, <2>1
    <2> QED
      BY <2>2
  <1>8. Pages(grown) /\ Len(grown) >= offset + n /\ \A i \in 1 .. L : grown[i] = m[i]
    <2>1. CASE offset + n > L
      <3>1. grown = StableGrow(m, more)
        BY <1>5, <2>1
      <3>2. /\ Pages(grown) /\ Len(grown) = L + more * P
            /\ \A i \in 1 .. L : grown[i] = m[i]
        BY <1>1, <1>2, <1>7, <3>1, GrowAddsZeros
      <3>3. PICK added \in Nat : added = more * P
        BY Z3
      <3> QED
        BY <1>2, <1>3, <1>4, <3>2, <3>3
    <2>2. CASE ~ (offset + n > L)
      BY <1>2, <1>3, <1>5, <2>2
    <2> QED
      BY <2>1, <2>2
  <1>9. PICK G \in Nat : G = Len(grown) /\ DOMAIN grown = 1 .. G /\ grown \in Seq(Cell) /\ G >= offset + n
    BY <1>8, LenProperties DEF Pages
  <1>10. PICK mem : mem = [i \in 1 .. G |->
                      IF i > offset /\ i <= offset + n THEN cells[i - offset] ELSE grown[i]]
    OBVIOUS
  <1>11. w = mem
    BY <1>6, <1>9, <1>10
  <1>12. /\ \A i \in 1 .. offset : mem[i] = m[i]
         /\ \A i \in 1 .. n : mem[offset + i] = cells[i]
    <2>1. ASSUME NEW i \in 1 .. offset PROVE mem[i] = m[i]
      <3>1. i \in 1 .. G /\ i \in 1 .. L /\ ~ (i > offset)
        BY <1>2, <1>3, <1>9
      <3> QED
        BY <1>8, <1>10, <3>1
    <2>2. ASSUME NEW i \in 1 .. n PROVE mem[offset + i] = cells[i]
      <3>1. PICK k \in 1 .. G : k = offset + i /\ k > offset /\ k <= offset + n /\ k - offset = i
        BY <1>2, <1>3, <1>9
      <3>2. mem[k] = cells[k - offset]
        BY <1>10, <3>1
      <3> QED
        BY <3>1, <3>2
    <2> QED
      BY <2>1, <2>2
  <1>13. mem \in Seq(Cell) /\ Len(mem) = G
    <2>1. ASSUME NEW i \in 1 .. G PROVE mem[i] \in Cell
      <3>1. CASE i > offset /\ i <= offset + n
        <4>1. i - offset \in 1 .. n
          BY <1>2, <1>3, <3>1
        <4>2. cells[i - offset] \in Cell
          BY <1>3, <4>1
        <4> QED
          BY <1>10, <3>1, <4>2
      <3>2. CASE ~ (i > offset /\ i <= offset + n)
        <4>1. grown[i] \in Cell
          BY <1>9
        <4> QED
          BY <1>10, <3>2, <4>1
      <3> QED
        BY <3>1, <3>2
    <2>2. DOMAIN mem = 1 .. G
      BY <1>10
    <2>3. mem \in [1 .. G -> Cell]
      BY <1>10, <2>1
    <2> QED
      BY <2>2, <2>3
  <1>14. Pages(mem)
    BY <1>8, <1>9, <1>13 DEF Pages
  <1> QED
    BY <1>3, <1>9, <1>11, <1>12, <1>13, <1>14


LEMMA CellsOfState ==
  ASSUME NEW s \in States
  PROVE  /\ s.size \in Nat \ {0} /\ Encode(s) \in Seq(Cell) /\ Len(Encode(s)) = s.size
         /\ \A i \in 1 .. s.size : Encode(s)[i] = [of |-> "value", value |-> s, at |-> i]
  <1>1. s.size \in Nat \ {0}
    BY StorageAssumption DEF States
  <1>2. \A i \in 1 .. s.size : [of |-> "value", value |-> s, at |-> i] \in Cell
    BY <1>1 DEF Cell
  <1> QED
    BY <1>1, <1>2 DEF Encode

\* write, if it succeeds, leaves the version and the whole value.
LEMMA WriteHolds ==
  ASSUME NEW m, MemoryOK(m), NEW version \in 1 .. Newest, NEW s \in States,
         NEW w, w = Write(m, version, s), w # << >>
  PROVE  MemoryOK(w) /\ Holds(w, version, s)
  <1>1. PICK tag : tag = [of |-> "version", version |-> version]
    OBVIOUS
  <1>2. PICK tags \in Seq(Cell) : tags = << tag >> /\ tags # << >> /\ Len(tags) = 1 /\ tags[1] = tag
    <2>1. tag \in Cell
      BY <1>1 DEF Cell
    <2>2. << tag >> \in Seq(Cell)
      BY <2>1
    <2>3. << tag >> # << >> /\ Len(<< tag >>) = 1 /\ << tag >>[1] = tag
      OBVIOUS
    <2> QED
      BY <2>2, <2>3
  <1>3. PICK mem : mem = WriteCells(m, 0, tags)
    OBVIOUS
  <1>4. mem # << >> /\ w = WriteCells(mem, 1, Encode(s))
    BY <1>1, <1>2, <1>3 DEF Write
  <1>5. Pages(m) /\ 0 \in 0 .. Len(m)
    BY DEF MemoryOK, Pages
  <1>6. /\ Pages(mem) /\ Len(mem) >= 0 + Len(tags)
        /\ \A i \in 1 .. Len(tags) : mem[0 + i] = tags[i]
    <2>1. PICK none \in 0 .. Len(m) : none = 0
      BY <1>5
    <2>2. mem = WriteCells(m, none, tags) /\ mem # << >> /\ tags # << >> /\ Pages(m)
      BY <1>2, <1>3, <1>4, <1>5, <2>1
    <2>3. /\ Pages(mem) /\ Len(mem) >= none + Len(tags)
          /\ \A i \in 1 .. Len(tags) : mem[none + i] = tags[i]
      BY <2>2, WriteCellsWrites
    <2> QED
      BY <2>1, <2>3
  <1>7. 1 \in 0 .. Len(mem) /\ mem[1] = tag
    BY <1>2, <1>6 DEF Pages
  <1>8. PICK value \in Seq(Cell) :
          /\ value = Encode(s) /\ value # << >> /\ Len(value) = s.size /\ s.size \in Nat \ {0}
    BY CellsOfState
  <1>9. /\ Pages(w) /\ Len(w) >= 1 + Len(value)
        /\ \A i \in 1 .. 1 : w[i] = mem[i]
        /\ \A i \in 1 .. Len(value) : w[1 + i] = value[i]
    BY <1>4, <1>6, <1>7, <1>8, WriteCellsWrites
  <1>10. w[1] = tag /\ Len(w) \in Nat /\ w \in Seq(Cell) /\ Len(w) > s.size
    BY <1>7, <1>8, <1>9 DEF Pages
  <1>11. \A i \in 1 .. s.size : w[i + 1] = Encode(s)[i]
    BY <1>8, <1>9
  <1>12. Holds(w, version, s)
    BY <1>1, <1>10, <1>11 DEF Holds
  <1>13. MemoryOK(w)
    BY <1>1, <1>9, <1>10 DEF MemoryOK, Pages
  <1> QED
    BY <1>12, <1>13

\* read finds what write has left.
LEMMA ReadFinds ==
  ASSUME NEW m, MemoryOK(m), NEW version \in 1 .. Newest, NEW to \in 1 .. Newest, NEW s \in States,
         Holds(m, version, s), Read(m, to).err = "none"
  PROVE  version <= to /\ Read(m, to).value = RecursiveUpgrade(to, version, s)
  <1>0. Newest \in Nat
    BY StorageAssumption
  <1>1. m \in Seq(Cell) /\ Len(m) \in Nat /\ s.size \in Nat \ {0} /\ Len(m) > s.size
    BY CellsOfState DEF MemoryOK, Holds
  <1>2. ReadVersion(m) = version
    BY <1>1 DEF Holds, ReadVersion
  <1>3. PICK cells : cells = SubSeq(m, 2, Len(m))
    OBVIOUS
  <1>4. cells[1] = m[2]
    BY <1>1, <1>3, SubSeqProperties
  <1>5. m[2] = [of |-> "value", value |-> s, at |-> 1]
    <2>1. 1 \in 1 .. s.size /\ 1 + 1 = 2
      BY <1>1
    <2> QED
      BY <2>1, CellsOfState DEF Holds
  <1>6. cells[1].value = s
    BY <1>4, <1>5
  <1>7. version # -1 /\ version \in Int /\ to \in Int
    BY <1>0
  <1>8. version <= to
    BY <1>2, <1>7 DEF Read
  <1>9. Read(m, to) = IF Decodes(cells) THEN [err |-> "none", value |-> RecursiveUpgrade(to, version, s)]
                      ELSE [err |-> "Candid"]
    <2>1. ~ (version = -1) /\ ~ (version > to)
      BY <1>7, <1>8
    <2>2. Read(m, to) = IF Decodes(cells)
                        THEN [err |-> "none", value |-> RecursiveUpgrade(to, version, cells[1].value)]
                        ELSE [err |-> "Candid"]
      BY <1>2, <1>3, <1>8, <2>1 DEF Read
    <2> QED
      BY <1>6, <2>2
  <1> QED
    BY <1>8, <1>9

\* Pages that were never written are not a value.
LEMMA BlankIsUnread ==
  ASSUME NEW m, MemoryOK(m), Blank(m), NEW to \in 1 .. Newest
  PROVE  Read(m, to).err # "none"
  <1>0. Newest \in Nat
    BY StorageAssumption
  <1>1. m \in Seq(Cell) /\ Len(m) \in Nat
    BY DEF MemoryOK
  <1>2. CASE m = << >>
    BY <1>2 DEF Read, ReadVersion
  <1>3. CASE m # << >>
    <2>1. PICK L \in Nat : L = Len(m) /\ L >= 1
      BY <1>1, <1>3
    <2>2. m[1] = ZeroCell
      BY <1>1, <2>1 DEF Blank
    <2>3. ReadVersion(m) = 0
      BY <1>3, <2>2 DEF ReadVersion, ZeroCell
    <2>4. PICK cells : cells = SubSeq(m, 2, Len(m))
      OBVIOUS
    <2>5. ~ Decodes(cells)
      <3>1. CASE L = 1
        <4>1. cells = << >>
          BY <2>1, <2>4, <3>1, SubSeqEmpty
        <4> QED
          BY <4>1 DEF Decodes
      <3>2. CASE L # 1
        <4>1. L >= 2 /\ \A i \in 2 .. L : m[i] \in Cell
          BY <1>1, <2>1, <3>2
        <4>2. cells[1] = m[2]
          BY <2>1, <2>4, <4>1, SubSeqProperties
        <4>3. m[2] = ZeroCell
          BY <1>1, <2>1, <4>1 DEF Blank
        <4> QED
          BY <4>2, <4>3 DEF Decodes, ZeroCell
      <3> QED
        BY <3>1, <3>2
    <2>6. Read(m, to) = [err |-> "Candid"]
      <3>1. 0 # -1 /\ ~ (0 > to) /\ 0 <= to
        BY <1>0
      <3> QED
        BY <2>3, <2>4, <2>5, <3>1 DEF Read
    <2> QED
      BY <2>6
  <1> QED
    BY <1>2, <1>3


LEMMA StorageInvInit == StorageInit => StorageInv
  <1> SUFFICES ASSUME StorageInit PROVE StorageInv
    OBVIOUS
  <1>1. 0 \in 0 .. MaxPages /\ 0 * PageCells = 0 /\ 0 \in Versions
    BY StorageAssumption DEF Versions
  <1>2. memory = << >> /\ release = 0 /\ phase = "running" /\ persisted = NoState
    BY DEF StorageInit
  <1>3. Stored(memory, persisted)
    <2>1. memory \in Seq(Cell) /\ Len(memory) = 0 /\ DOMAIN memory = {}
      BY <1>2
    <2> QED
      BY <1>1, <1>2, <2>1 DEF Stored, MemoryOK, Blank
  <1> QED
    BY <1>1, <1>2, <1>3 DEF StorageInv

\* The memory in which a canister is installed
LEMMA FreshMemory ==
  ASSUME NEW pages \in 0 .. 1
  PROVE  MemoryOK(StableGrow(<< >>, pages)) /\ Blank(StableGrow(<< >>, pages))
  <1>1. 0 \in 0 .. MaxPages /\ 0 * PageCells = 0
    BY StorageAssumption
  <1>2. << >> \in Seq(Cell) /\ Len(<< >>) = 0 /\ DOMAIN << >> = {}
    OBVIOUS
  <1>3. PICK none : none = << >> /\ none \in Seq(Cell) /\ Len(none) = 0 /\ DOMAIN none = {}
    BY <1>2
  <1>4. Pages(none)
    BY <1>1, <1>3 DEF Pages
  <1>5. PICK m : m = StableGrow(none, pages)
    OBVIOUS
  <1>6. CASE m = << >>
    BY <1>3, <1>4, <1>6, <1>5 DEF MemoryOK, Blank, Pages
  <1>7. CASE m # << >>
    <2>1. Pages(m) /\ \A i \in DOMAIN m : i > Len(none) => m[i] = ZeroCell
      BY <1>4, <1>5, <1>7, GrowAddsZeros
    <2>2. \A i \in DOMAIN m : i > 0
      BY <2>1 DEF Pages
    <2>3. Blank(m)
      BY <1>3, <2>1, <2>2 DEF Blank
    <2> QED
      BY <1>3, <1>5, <2>1, <2>3 DEF MemoryOK, Pages
  <1> QED
    BY <1>6, <1>7

LEMMA PostUpgradeKeeps ==
  ASSUME StorageInv, NEW to \in 1 .. Newest, PostUpgrade(to)
  PROVE  StorageInv'
  <1>0. Newest \in Nat /\ to \in Versions /\ to # 0 /\ to \in Int
    BY StorageAssumption DEF Versions
  <1>1. /\ phase = "upgrading" /\ Read(memory, to).err = "none" /\ Stored(memory, persisted)
        /\ release' = to /\ state' = Read(memory, to).value /\ phase' = "running"
        /\ memory' = memory /\ persisted' = persisted
        /\ expected' = [expected EXCEPT !.upgrades =
                          @ \o Chain(VersionOf(expected), to - VersionOf(expected))]
        /\ persisted # NoState => expected = persisted
    BY DEF PostUpgrade, StorageInv, Chain
  <1>2. /\ MemoryOK(memory) /\ expected = persisted /\ expected \in States
        /\ VersionOf(expected) \in 1 .. Newest /\ Holds(memory, VersionOf(expected), expected)
    <2>1. ~ (persisted = NoState /\ Blank(memory))
      BY <1>1, BlankIsUnread DEF Stored
    <2>2. persisted \in States => persisted # NoState
      BY <1>0 DEF States, NoState
    <2> QED
      BY <1>1, <2>1, <2>2 DEF Stored
  <1>3. PICK from \in 1 .. Newest : from = VersionOf(expected) /\ from \in Versions
    BY <1>0, <1>2 DEF Versions
  <1>4. from <= to /\ state' = RecursiveUpgrade(to, from, expected)
    BY <1>1, <1>2, <1>3, ReadFinds
  <1>5. state' = expected'
    <2>1. expected' = [expected EXCEPT !.upgrades = @ \o Chain(from, to - from)]
      BY <1>1, <1>3
    <2>2. RecursiveUpgrade(to, from, expected) = [expected EXCEPT !.upgrades = @ \o Chain(from, to - from)]
      <3>1. from \in Versions /\ to \in Versions /\ from <= to /\ expected \in States
        BY <1>0, <1>2, <1>3, <1>4
      <3> QED
        BY <3>1, UpgradesInOrder
    <2> QED
      BY <1>4, <2>1, <2>2
  <1>6. PICK n \in Nat : n = to - from /\ from + n <= Newest /\ (n = 0 <=> to = from) /\ from + n = to
    BY <1>0, <1>3, <1>4
  <1>7. PICK c \in Seq(Versions) : c = Chain(from, n) /\ Len(c) = n
    BY <1>3, <1>6, ChainGrows
  <1>8. PICK u \in Seq(Versions) : u = expected.upgrades
    BY <1>2 DEF States
  <1>9. expected' \in States /\ expected'.upgrades = u \o c /\ expected'.born = expected.born
    <2>1. u \o c \in Seq(Versions)
      BY ConcatProperties
    <2>2. expected' = [expected EXCEPT !.upgrades = u \o c]
      BY <1>1, <1>3, <1>6, <1>7, <1>8
    <2> QED
      BY <1>2, <2>1, <2>2 DEF States
  <1>10. VersionOf(expected') = to
    <2>1. CASE n = 0
      <3>1. u \o c = u
        BY <1>7, <2>1, ConcatEmptySeq, EmptySeq
      <3> QED
        BY <1>2, <1>3, <1>6, <1>8, <1>9, <2>1, <3>1 DEF VersionOf
    <2>2. CASE n # 0
      <3>1. Len(u \o c) = Len(u) + n /\ (u \o c)[Len(u) + n] = c[n] /\ Len(u) \in Nat
        <4>1. PICK k \in Nat : k = Len(u)
          BY LenProperties
        <4>2. /\ Len(u \o c) = k + n
              /\ \A i \in 1 .. k + n : (u \o c)[i] = IF i <= k THEN u[i] ELSE c[i - k]
          <5>1. /\ Len(u \o c) = Len(u) + Len(c)
                /\ \A i \in 1 .. Len(u) + Len(c) : (u \o c)[i] = IF i <= Len(u) THEN u[i] ELSE c[i - Len(u)]
            BY ConcatProperties
          <5>2. Len(c) = n
            BY <1>7
          <5> QED
            BY <4>1, <5>1, <5>2
        <4>3. k + n \in 1 .. k + n /\ ~ (k + n <= k) /\ (k + n) - k = n
          BY <2>2
        <4> QED
          BY <4>1, <4>2, <4>3
      <3>2. c[n] = to
        BY <1>6, <1>7, <2>2 DEF Chain
      <3>3. u \o c # << >>
        BY <2>2, <3>1
      <3> QED
        BY <1>9, <3>1, <3>2, <3>3 DEF VersionOf, Last
    <2> QED
      BY <2>1, <2>2
  <1> QED
    BY <1>0, <1>1, <1>5, <1>9, <1>10 DEF StorageInv, StateOf

LEMMA StorageInvNext == StorageInv /\ [StorageNext]_storageVars => StorageInv'
  <1> SUFFICES ASSUME StorageInv, [StorageNext]_storageVars PROVE StorageInv'
    OBVIOUS
  <1>0. Newest \in Nat /\ \A v \in 1 .. Newest : v \in Versions /\ v # 0
    BY StorageAssumption DEF Versions
  <1>1. ASSUME NEW s \in [content : Contents, born : 1 .. Newest, upgrades : {<< >>}, size : Sizes],
               NEW pages \in 0 .. 1, Install(s.born, s, pages)
        PROVE  StorageInv'
    <2>1. /\ s.born \in 1 .. Newest /\ s.upgrades = << >> /\ phase = "running"
          /\ release' = s.born /\ state' = s /\ expected' = s /\ phase' = phase
          /\ persisted' = persisted /\ persisted = NoState
      BY <1>1 DEF Install, StorageInv
    <2>2. << >> \in Seq(Versions)
      OBVIOUS
    <2>3. s \in States
      BY <2>2 DEF States
    <2>4. VersionOf(s) = s.born
      BY <2>1 DEF VersionOf
    <2>5. MemoryOK(memory') /\ Blank(memory')
      BY <1>1, FreshMemory DEF Install
    <2>6. Stored(memory', persisted')
      BY <2>1, <2>5 DEF Stored
    <2> QED
      BY <1>0, <2>1, <2>3, <2>4, <2>6 DEF StorageInv, StateOf
  <1>2. ASSUME NEW c \in Contents, NEW n \in Sizes, Update(c, n) PROVE StorageInv'
    <2>1. /\ release # 0 /\ phase = "running" /\ StateOf(state)
          /\ state' = [state EXCEPT !.content = c, !.size = n] /\ expected' = state'
          /\ memory' = memory /\ release' = release /\ phase' = phase /\ persisted' = persisted
      BY <1>2 DEF Update, StorageInv
    <2>2. state' \in States /\ state'.upgrades = state.upgrades /\ state'.born = state.born
      BY <2>1 DEF States, StateOf
    <2>3. VersionOf(state') = release
      BY <2>1, <2>2 DEF VersionOf, StateOf
    <2> QED
      BY <2>1, <2>2, <2>3 DEF StorageInv, StateOf
  <1>3. ASSUME PreUpgrade PROVE StorageInv'
    <2>1. /\ release # 0 /\ phase = "running" /\ StateOf(state) /\ state = expected
          /\ Stored(memory, persisted) /\ MemoryOK(memory)
          /\ memory' = Write(memory, release, state) /\ memory' # << >> /\ persisted' = state
          /\ before' = << memory, release, state, persisted >>
          /\ phase' = "upgrading" /\ release' = release /\ expected' = expected
      BY <1>3 DEF PreUpgrade, StorageInv, StateOf, Stored
    <2>2. release \in 1 .. Newest /\ release \in Versions /\ state \in States /\ VersionOf(state) = release
      BY <1>0, <2>1 DEF StorageInv, Versions, StateOf
    <2>3. MemoryOK(memory') /\ Holds(memory', release, state)
      BY <2>1, <2>2, WriteHolds
    <2>4. Stored(memory', persisted')
      BY <2>1, <2>2, <2>3 DEF Stored
    <2>5. /\ before'[1] = memory /\ before'[2] = release /\ before'[3] = state /\ before'[4] = persisted
          /\ before' = << before'[1], release', before'[3], before'[4] >>
      BY <2>1
    <2> QED
      BY <2>1, <2>2, <2>4, <2>5 DEF StorageInv
  <1>4. ASSUME PreUpgradeNone PROVE StorageInv'
    <2>1. /\ release # 0 /\ phase = "running" /\ StateOf(state) /\ state = expected
          /\ Stored(memory, persisted) /\ memory' = memory /\ persisted' = persisted
          /\ release \in Versions /\ before' = << memory, release, state, persisted >>
          /\ phase' = "upgrading" /\ release' = release
          /\ persisted # NoState => expected' = persisted
      BY <1>4 DEF PreUpgradeNone, StorageInv, StateOf
    <2>2. /\ before'[1] = memory /\ before'[2] = release /\ before'[3] = state /\ before'[4] = persisted
          /\ before' = << before'[1], release', before'[3], before'[4] >>
      BY <2>1
    <2> QED
      BY <2>1, <2>2 DEF StorageInv, StateOf
  <1>5. ASSUME NEW to \in 1 .. Newest, PostUpgradeTraps(to) PROVE StorageInv'
    <2>1. /\ phase = "upgrading" /\ release \in Versions /\ release # 0
          /\ before = << before[1], release, before[3], before[4] >>
          /\ Stored(before[1], before[4]) /\ before[3] \in States /\ VersionOf(before[3]) = release
          /\ memory' = before[1] /\ release' = before[2] /\ state' = before[3]
          /\ persisted' = before[4] /\ expected' = before[3] /\ phase' = "running"
      BY <1>5 DEF PostUpgradeTraps, StorageInv
    <2>2. release' = release
      BY <2>1
    <2> QED
      BY <2>1, <2>2 DEF StorageInv, StateOf
  <1>6. ASSUME UNCHANGED storageVars PROVE StorageInv'
    BY <1>6 DEF storageVars, StorageInv, StateOf
  <1> QED
    BY <1>1, <1>2, <1>3, <1>4, <1>5, <1>6, PostUpgradeKeeps DEF StorageNext

(***************************************************************************)
(* After any sequence of upgrades, refused downgrades and writes of        *)
(* shorter and longer values, the running canister has the state its users *)
(* left, or, after a release without upgrade methods, the one written      *)
(* last, each upgrade applied once and in order, for any number of         *)
(* versions and sizes of values and pages.                                 *)
(***************************************************************************)
THEOREM UpgradesKeepTheState == StorageSpec => []UpgradesKeepState
  <1>1. StorageInv => UpgradesKeepState
    BY DEF StorageInv, UpgradesKeepState, StateOf
  <1> QED
    BY <1>1, StorageInvInit, StorageInvNext, PTL DEF StorageSpec

\* The memory of the invariant is made of whole pages.
LEMMA StorageInvTypes == StorageInv => StorageTypeOK
  <1> SUFFICES ASSUME StorageInv PROVE StorageTypeOK
    OBVIOUS
  <1>1. PICK q \in Nat, p \in Nat \ {0} : q <= MaxPages /\ p = PageCells /\ Len(memory) = q * p
    BY StorageAssumption DEF StorageInv, Stored, MemoryOK
  <1>2. Len(memory) % PageCells = 0 /\ StableSize(memory) = q
    BY <1>1, ExactQuotient DEF StableSize
  <1> QED
    BY <1>1, <1>2 DEF StorageInv, StorageTypeOK

(***************************************************************************)
(* The stable memory is made of whole pages, within the limit.             *)
(***************************************************************************)
THEOREM StorageTypes == StorageSpec => []StorageTypeOK
  BY StorageInvTypes, StorageInvInit, StorageInvNext, PTL DEF StorageSpec

-----------------------------------------------------------------------------
(* MockHandlers *)

\* What a handler may leave of a context with n cycles, `total` with its balance
Outcomes(total, n) ==
  {s \in [ctx : Context, panicked : BOOLEAN] :
     s.ctx.balance + s.ctx.cycles = total /\ s.ctx.cycles <= n}

LEMMA AcceptConserves ==
  ASSUME NEW c \in Context, NEW n \in Nat
  PROVE  /\ Accept(c, n) \in Context
         /\ Accept(c, n).balance + Accept(c, n).cycles = c.balance + c.cycles
         /\ Accept(c, n).cycles <= c.cycles
  <1>1. PICK b \in Nat, k \in Nat : b = c.balance /\ k = c.cycles
    BY DEF Context
  <1>2. PICK a \in Nat : a = Accepted(k, n) /\ a <= k
    BY DEF Accepted
  <1>3. PICK d : d = [c EXCEPT !.cycles = k - a, !.balance = b + a]
    OBVIOUS
  <1>4. Accept(c, n) = d
    <2>1. Accepted(c.cycles, n) = a
      BY <1>1, <1>2
    <2>2. Accept(c, n) = [c EXCEPT !.cycles = c.cycles - a, !.balance = c.balance + a]
      BY <2>1 DEF Accept, Context
    <2> QED
      BY <1>1, <1>3, <2>2
  <1>5. d \in Context /\ d.balance = b + a /\ d.cycles = k - a
    <2>1. PICK less \in Nat, more \in Nat : less = k - a /\ more = b + a
      BY <1>2
    <2>2. d = [c EXCEPT !.cycles = less, !.balance = more]
      BY <1>3, <2>1
    <2>3. d \in Context /\ d.balance = more /\ d.cycles = less
      BY <2>2 DEF Context
    <2> QED
      BY <2>1, <2>3
  <1> QED
    BY <1>1, <1>2, <1>4, <1>5

LEMMA AcceptOutcome ==
  ASSUME NEW total \in Nat, NEW n \in Nat, NEW s \in Outcomes(total, n), NEW k \in Nat
  PROVE  [s EXCEPT !.ctx = Accept(@, k)] \in Outcomes(total, n)
  <1>1. PICK c \in Context : c = s.ctx /\ c.balance + c.cycles = total /\ c.cycles <= n
    BY DEF Outcomes
  <1>2. PICK d \in Context : d = Accept(c, k) /\ d.balance + d.cycles = total /\ d.cycles <= c.cycles
    BY <1>1, AcceptConserves
  <1>3. c.cycles \in Nat /\ d.cycles \in Nat
    BY DEF Context
  <1>4. d.cycles <= n
    BY <1>1, <1>2, <1>3
  <1>5. PICK t : t = [s EXCEPT !.ctx = d]
    OBVIOUS
  <1>6. t \in [ctx : Context, panicked : BOOLEAN] /\ t.ctx = d
    BY <1>5 DEF Outcomes
  <1> QED
    BY <1>1, <1>2, <1>4, <1>5, <1>6 DEF Outcomes

LEMMA AtomOutcome ==
  ASSUME NEW total \in Nat, NEW n \in Nat, NEW s \in Outcomes(total, n), NEW atom \in MethodAtom
  PROVE  PerformAtom(s, atom) \in Outcomes(total, n)
  <1>1. atom.amount \in Nat /\ atom.op \in {"ConsumeAll", "Consume", "Refund"}
    BY MockAssumption DEF MethodAtom
  <1>2. s.ctx.cycles \in Nat /\ s.panicked \in BOOLEAN
    BY DEF Outcomes, Context
  <1>3. CyclesMAX \in Nat
    BY DEF CyclesMAX
  <1>4. CASE s.panicked
    BY <1>4 DEF PerformAtom
  <1>5. CASE ~ s.panicked /\ atom.op = "ConsumeAll"
    <2>1. PerformAtom(s, atom) = [s EXCEPT !.ctx = Accept(@, CyclesMAX)]
      BY <1>5 DEF PerformAtom
    <2> QED
      BY <1>3, <2>1, AcceptOutcome
  <1>6. CASE ~ s.panicked /\ atom.op = "Consume"
    <2>1. PerformAtom(s, atom) = [s EXCEPT !.ctx = Accept(@, atom.amount)]
      BY <1>6 DEF PerformAtom
    <2> QED
      BY <1>1, <2>1, AcceptOutcome
  <1>7. CASE ~ s.panicked /\ atom.op = "Refund"
    <2>1. CASE atom.amount > s.ctx.cycles
      <3>1. PerformAtom(s, atom) = [s EXCEPT !.panicked = TRUE]
        BY <1>7, <2>1 DEF PerformAtom
      <3> QED
        BY <3>1 DEF Outcomes
    <2>2. CASE ~ (atom.amount > s.ctx.cycles)
      <3>1. PICK k \in Nat : k = s.ctx.cycles - atom.amount
        BY <1>1, <1>2, <2>2
      <3>2. PerformAtom(s, atom) = [s EXCEPT !.ctx = Accept(@, k)]
        BY <1>7, <2>2, <3>1 DEF PerformAtom
      <3> QED
        BY <3>2, AcceptOutcome
    <2> QED
      BY <2>1, <2>2
  <1> QED
    BY <1>1, <1>2, <1>4, <1>5, <1>6, <1>7

\* A method conserves the cycles, whatever its atoms are.
LEMMA AtomsOutcome ==
  ASSUME NEW total \in Nat, NEW n \in Nat, NEW s \in Outcomes(total, n), NEW atoms \in Seq(MethodAtom)
  PROVE  FoldLeft(PerformAtom, s, atoms) \in Outcomes(total, n)
  <1>1. PICK m \in Nat : m = Len(atoms) /\ DOMAIN atoms = 1 .. m
    BY LenProperties
  <1>2. \A i \in 1 .. m : atoms[i] \in MethodAtom
    BY <1>1
  <1>3. PICK X : X = Outcomes(total, n)
    OBVIOUS
  <1>4. IsFiniteSet(1 .. m)
    BY FS_Interval
  <1>5. PICK F : F = [p \in (1 .. m) \X X |-> PerformAtom(p[2], atoms[p[1]])]
    OBVIOUS
  <1>6. F \in [(1 .. m) \X X -> X]
    <2>1. ASSUME NEW p \in (1 .. m) \X X PROVE PerformAtom(p[2], atoms[p[1]]) \in X
      <3>1. p[1] \in 1 .. m /\ p[2] \in Outcomes(total, n)
        BY <1>3
      <3>2. PICK atom \in MethodAtom : atom = atoms[p[1]]
        BY <1>2, <3>1
      <3> QED
        BY <1>3, <3>1, <3>2, AtomOutcome
    <2> QED
      BY <1>5, <2>1
  <1>7. PICK pick : pick = [t \in SUBSET (1 .. m) |-> Max(t)]
    OBVIOUS
  <1>8. Picks(pick, 1 .. m) /\ PicksMax(pick, m)
    BY <1>7, MaxUpto DEF Picks, PicksMax
  <1>9. PICK g : Folding(g, 1 .. m, X, s, F, pick)
    BY <1>3, <1>4, <1>6, <1>8, FoldExists
  <1> DEFINE Is(h) == h = [t \in SUBSET (1 .. m) |-> IF t = {} THEN s ELSE PerformAtom(h[t \ {Max(t)}], atoms[Max(t)])]
  <1>10. Is(g)
    <2>1. ASSUME NEW t \in SUBSET (1 .. m)
          PROVE  g[t] = IF t = {} THEN s ELSE PerformAtom(g[t \ {Max(t)}], atoms[Max(t)])
      <3>1. CASE t = {}
        BY <1>9, <3>1 DEF Folding
      <3>2. CASE t # {}
        <4>1. PICK x \in 1 .. m : x = Max(t) /\ x = pick[t]
          BY <1>8, <3>2 DEF Picks, PicksMax
        <4>2. PICK rest \in SUBSET (1 .. m) : rest = t \ {x}
          OBVIOUS
        <4>3. g[rest] \in X /\ g[t] = F[<< x, g[rest] >>]
          BY <1>9, <3>2, <4>1, <4>2 DEF Folding
        <4>4. F[<< x, g[rest] >>] = PerformAtom(g[rest], atoms[x])
          BY <1>5, <4>3
        <4> QED
          BY <3>2, <4>1, <4>2, <4>3, <4>4
      <3> QED
        BY <3>1, <3>2
    <2> QED
      BY <1>9, <2>1 DEF Folding
  <1>11. PICK h : h = CHOOSE f : Is(f)
    OBVIOUS
  <1>12. FoldLeft(PerformAtom, s, atoms) = h[1 .. m]
    BY <1>1, <1>11 DEF FoldLeft, MapThenFoldSet
  <1> HIDE DEF Is
  <1>13. Is(h)
    BY <1>10, <1>11
  <1>14. \A t \in SUBSET (1 .. m) : h[t] = g[t]
    <2>1. h[{}] = s
      BY <1>13 DEF Is
    <2>2. ASSUME NEW t \in SUBSET (1 .. m), t # {}, h[t \ {pick[t]}] \in X
          PROVE  h[t] = F[<< pick[t], h[t \ {pick[t]}] >>]
      <3>1. PICK x \in 1 .. m : x = Max(t) /\ x = pick[t]
        BY <1>8, <2>2 DEF Picks, PicksMax
      <3>2. h[t] = PerformAtom(h[t \ {x}], atoms[x])
        BY <1>13, <2>2, <3>1 DEF Is
      <3>3. F[<< x, h[t \ {x}] >>] = PerformAtom(h[t \ {x}], atoms[x])
        BY <1>5, <2>2, <3>1
      <3> QED
        BY <3>1, <3>2, <3>3
    <2>3. Follows(h, 1 .. m, X, s, F, pick)
      BY <2>1, <2>2 DEF Follows
    <2>4. PICK S : S = 1 .. m
      OBVIOUS
    <2>5. /\ IsFiniteSet(S) /\ Picks(pick, S)
          /\ Folding(g, S, X, s, F, pick) /\ Follows(h, S, X, s, F, pick)
      BY <1>4, <1>8, <1>9, <2>3, <2>4
    <2>6. \A t \in SUBSET S : h[t] = g[t]
      BY <2>5, FoldUnique
    <2> QED
      BY <2>4, <2>6
  <1>15. 1 .. m \in SUBSET (1 .. m)
    OBVIOUS
  <1>16. g[1 .. m] \in X
    BY <1>9, <1>15 DEF Folding
  <1> QED
    BY <1>3, <1>12, <1>14, <1>15, <1>16

\* A handler accepts at most what is there, and neither makes cycles nor loses
\* them but for what its closure sets.
LEMMA PerformConserves ==
  ASSUME NEW h \in Handler, NEW ctx \in Context, NEW args
  PROVE  /\ Put(h, ctx) \in Int /\ Carried(h, ctx.cycles) \in Nat
         /\ Perform(h, ctx, args) \in
              Outcomes(ctx.balance + ctx.cycles + Put(h, ctx), Carried(h, ctx.cycles))
  <1>1. PICK n \in Nat, b \in Nat : n = ctx.cycles /\ b = ctx.balance
    BY DEF Context
  <1>3. CASE h \in RawHandler
    <2>1. /\ h.kind = "raw" /\ h.amount \in Nat /\ h.panics \in BOOLEAN
          /\ h.op \in {"Accept", "SetCycles", "SetBalance"}
      BY <1>3, MockAssumption DEF RawHandler
    <2>2. PICK a \in Nat : a = h.amount
      BY <2>1
    <2>3. CASE h.op = "Accept"
      <3>1. Put(h, ctx) = 0 /\ Carried(h, ctx.cycles) = n
        BY <1>1, <2>1, <2>3 DEF Put, Carried
      <3>2. PICK d \in Context : d = Accept(ctx, a) /\ d.balance + d.cycles = b + n /\ d.cycles <= n
        BY <1>1, <2>2, AcceptConserves
      <3>3. Perform(h, ctx, args) = [ctx |-> d, panicked |-> h.panics]
        BY <2>1, <2>2, <2>3, <3>2 DEF Perform, PerformRaw
      <3> QED
        BY <1>1, <2>1, <3>1, <3>2, <3>3 DEF Outcomes
    <2>4. CASE h.op = "SetCycles"
      <3>1. Put(h, ctx) = a - n
        BY <1>1, <2>1, <2>2, <2>4 DEF Put
      <3>2. PICK k \in Nat : k = Carried(h, ctx.cycles) /\ a <= k
        BY <1>1, <2>1, <2>2, <2>4 DEF Carried
      <3>3. PICK d \in Context : d = [ctx EXCEPT !.cycles = a] /\ d.balance = b /\ d.cycles = a
        <4>1. PICK d : d = [ctx EXCEPT !.cycles = a]
          OBVIOUS
        <4> QED
          BY <1>1, <4>1 DEF Context
      <3>4. Perform(h, ctx, args) = [ctx |-> d, panicked |-> h.panics]
        BY <2>1, <2>2, <2>4, <3>3 DEF Perform, PerformRaw
      <3>5. b + a = b + n + (a - n) /\ a - n \in Int
        OBVIOUS
      <3>6. ctx.balance + ctx.cycles + Put(h, ctx) = d.balance + d.cycles
        BY <1>1, <3>1, <3>3, <3>5
      <3>7. [ctx |-> d, panicked |-> h.panics] \in Outcomes(d.balance + d.cycles, k)
        BY <2>1, <3>2, <3>3 DEF Outcomes
      <3> QED
        BY <3>1, <3>2, <3>4, <3>5, <3>6, <3>7
    <2>5. CASE h.op = "SetBalance"
      <3>1. Put(h, ctx) = a - b /\ Carried(h, ctx.cycles) = n
        BY <1>1, <2>1, <2>2, <2>5 DEF Put, Carried
      <3>2. PICK d \in Context : d = [ctx EXCEPT !.balance = a] /\ d.balance = a /\ d.cycles = n
        <4>1. PICK d : d = [ctx EXCEPT !.balance = a]
          OBVIOUS
        <4> QED
          BY <1>1, <4>1 DEF Context
      <3>3. Perform(h, ctx, args) = [ctx |-> d, panicked |-> h.panics]
        BY <2>1, <2>2, <2>5, <3>2 DEF Perform, PerformRaw
      <3>4. a + n = b + n + (a - b) /\ a - b \in Int /\ n <= n
        OBVIOUS
      <3>5. ctx.balance + ctx.cycles + Put(h, ctx) = d.balance + d.cycles
        BY <1>1, <3>1, <3>2, <3>4
      <3>6. [ctx |-> d, panicked |-> h.panics] \in Outcomes(d.balance + d.cycles, n)
        BY <2>1, <3>2, <3>4 DEF Outcomes
      <3> QED
        BY <3>1, <3>3, <3>4, <3>5, <3>6
    <2> QED
      BY <2>1, <2>3, <2>4, <2>5
  <1>4. CASE h \in Method
    <2>0. PICK total \in Nat : total = b + n /\ total = ctx.balance + ctx.cycles
      BY <1>1
    <2>1. h.kind = "method" /\ h.atoms \in Seq(MethodAtom)
      BY <1>4 DEF Method
    <2> DEFINE wrong == \/ h.expected_cycles \notin {Unset, ctx.cycles}
                        \/ h.expected_args \notin {Unset, args}
               first == [ctx |-> ctx, panicked |-> wrong]
               atoms == IF wrong THEN << >> ELSE h.atoms
    <2>2. Perform(h, ctx, args) = FoldLeft(PerformAtom, first, atoms)
      BY <2>1 DEF Perform, PerformMethod
    <2>3. first \in Outcomes(total, n)
      BY <1>1, <2>0 DEF Outcomes
    <2>4. atoms \in Seq(MethodAtom)
      BY <2>1
    <2> HIDE DEF first, atoms
    <2>5. FoldLeft(PerformAtom, first, atoms) \in Outcomes(total, n)
      BY <2>3, <2>4, AtomsOutcome
    <2>6. Put(h, ctx) = 0 /\ Carried(h, ctx.cycles) = n
      BY <1>1, <2>1 DEF Put, Carried
    <2>7. ctx.balance + ctx.cycles + 0 = total
      BY <1>1, <2>0
    <2> QED
      BY <2>2, <2>5, <2>6, <2>7
  <1> QED
    BY <1>3, <1>4 DEF Handler


\* cycles_consumed, one recorded call after the other
Spent(c) == c.cycles_sent - c.cycles_refunded

PartialSums(p, watched) ==
  /\ p[0] = 0 /\ \A k \in 0 .. Len(watched) : p[k] \in Int
  /\ \A k \in 1 .. Len(watched) : p[k] = p[k - 1] + Spent(watched[k])

LEMMA ConsumedIs ==
  ASSUME NEW watched \in Seq(Call)
  PROVE  \E p : PartialSums(p, watched) /\ CyclesConsumed(watched) = p[Len(watched)]
  <1>1. PICK m \in Nat : m = Len(watched) /\ DOMAIN watched = 1 .. m
    BY LenProperties
  <1>2. \A i \in 1 .. m : Spent(watched[i]) \in Int
    <2> SUFFICES ASSUME NEW i \in 1 .. m PROVE Spent(watched[i]) \in Int
      OBVIOUS
    <2>1. PICK c \in Call : c = watched[i]
      BY <1>1
    <2> QED
      BY <2>1 DEF Spent, Call
  <1>3. IsFiniteSet(1 .. m)
    BY FS_Interval
  <1>4. PICK F : F = [q \in (1 .. m) \X Int |-> q[2] + Spent(watched[q[1]])]
    OBVIOUS
  <1>5. F \in [(1 .. m) \X Int -> Int]
    <2>1. ASSUME NEW q \in (1 .. m) \X Int PROVE q[2] + Spent(watched[q[1]]) \in Int
      <3>1. PICK i \in 1 .. m, sum \in Int, d \in Int : i = q[1] /\ sum = q[2] /\ d = Spent(watched[i])
        BY <1>2
      <3> QED
        BY <3>1
    <2> QED
      BY <1>4, <2>1
  <1>6. PICK pick : pick = [t \in SUBSET (1 .. m) |-> Max(t)]
    OBVIOUS
  <1>7. Picks(pick, 1 .. m) /\ PicksMax(pick, m)
    BY <1>6, MaxUpto DEF Picks, PicksMax
  <1>8. PICK g : Folding(g, 1 .. m, Int, 0, F, pick)
    <2>1. PICK S, X, base : S = 1 .. m /\ X = Int /\ base = 0
      OBVIOUS
    <2>2. IsFiniteSet(S) /\ base \in X /\ F \in [S \X X -> X] /\ Picks(pick, S)
      BY <1>3, <1>5, <1>7, <2>1
    <2>3. \E g : Folding(g, S, X, base, F, pick)
      BY <2>2, FoldExists
    <2> QED
      BY <2>1, <2>3
  <1> DEFINE Is(h) == h = [t \in SUBSET (1 .. m) |-> IF t = {} THEN 0 ELSE h[t \ {Max(t)}] + Spent(watched[Max(t)])]
  <1>9. Is(g)
    <2>1. ASSUME NEW t \in SUBSET (1 .. m)
          PROVE  g[t] = IF t = {} THEN 0 ELSE g[t \ {Max(t)}] + Spent(watched[Max(t)])
      <3>1. CASE t = {}
        BY <1>8, <3>1 DEF Folding
      <3>2. CASE t # {}
        <4>1. PICK x \in 1 .. m : x = Max(t) /\ x = pick[t]
          BY <1>7, <3>2 DEF Picks, PicksMax
        <4>2. PICK rest \in SUBSET (1 .. m) : rest = t \ {x}
          OBVIOUS
        <4>3. g[rest] \in Int /\ g[t] = F[<< x, g[rest] >>]
          BY <1>8, <3>2, <4>1, <4>2 DEF Folding
        <4>4. F[<< x, g[rest] >>] = g[rest] + Spent(watched[x])
          BY <1>4, <4>3
        <4> QED
          BY <3>2, <4>1, <4>2, <4>3, <4>4
      <3> QED
        BY <3>1, <3>2
    <2> QED
      BY <1>8, <2>1 DEF Folding
  <1>10. PICK h : h = CHOOSE f : Is(f)
    OBVIOUS
  <1>11. CyclesConsumed(watched) = h[1 .. m]
    BY <1>1, <1>10 DEF CyclesConsumed, FoldLeft, MapThenFoldSet, Spent
  <1> HIDE DEF Is
  <1>12. Is(h)
    BY <1>9, <1>10
  <1>13. \A t \in SUBSET (1 .. m) : h[t] = g[t]
    <2>1. h[{}] = 0
      BY <1>12 DEF Is
    <2>2. ASSUME NEW t \in SUBSET (1 .. m), t # {}, h[t \ {pick[t]}] \in Int
          PROVE  h[t] = F[<< pick[t], h[t \ {pick[t]}] >>]
      <3>1. PICK x \in 1 .. m : x = Max(t) /\ x = pick[t]
        BY <1>7, <2>2 DEF Picks, PicksMax
      <3>2. h[t] = h[t \ {x}] + Spent(watched[x])
        BY <1>12, <2>2, <3>1 DEF Is
      <3>3. F[<< x, h[t \ {x}] >>] = h[t \ {x}] + Spent(watched[x])
        BY <1>4, <2>2, <3>1
      <3> QED
        BY <3>1, <3>2, <3>3
    <2>3. Follows(h, 1 .. m, Int, 0, F, pick)
      BY <2>1, <2>2 DEF Follows
    <2>4. PICK S : S = 1 .. m
      OBVIOUS
    <2>5. /\ IsFiniteSet(S) /\ Picks(pick, S)
          /\ Folding(g, S, Int, 0, F, pick) /\ Follows(h, S, Int, 0, F, pick)
      BY <1>3, <1>7, <1>8, <2>3, <2>4
    <2>6. \A t \in SUBSET S : h[t] = g[t]
      BY <2>5, FoldUnique
    <2> QED
      BY <2>4, <2>6
  <1>14. /\ g[1 .. 0] = 0 /\ \A k \in 0 .. m : g[1 .. k] \in Int
         /\ \A k \in 1 .. m : g[1 .. k] = F[<< k, g[1 .. (k - 1)] >>]
    BY <1>7, <1>8, FoldSteps
  <1>15. PICK p : p = [k \in 0 .. m |-> g[1 .. k]]
    OBVIOUS
  <1>16. ASSUME NEW k \in 1 .. m PROVE p[k] = p[k - 1] + Spent(watched[k])
    <2>1. PICK j \in 0 .. m : j = k - 1
      OBVIOUS
    <2>2. p[j] = g[1 .. j] /\ p[k] = g[1 .. k] /\ g[1 .. j] \in Int /\ g[1 .. k] = F[<< k, g[1 .. j] >>]
      BY <1>14, <1>15, <2>1
    <2>3. F[<< k, g[1 .. j] >>] = g[1 .. j] + Spent(watched[k])
      BY <1>4, <2>2
    <2> QED
      BY <2>1, <2>2, <2>3
  <1>17. p[0] = 0 /\ (\A k \in 0 .. m : p[k] \in Int) /\ p[m] = g[1 .. m]
    BY <1>14, <1>15
  <1>18. PartialSums(p, watched)
    BY <1>1, <1>16, <1>17 DEF PartialSums
  <1>19. CyclesConsumed(watched) = p[m]
    <2>1. 1 .. m \in SUBSET (1 .. m)
      OBVIOUS
    <2> QED
      BY <1>11, <1>13, <1>17, <2>1
  <1> QED
    BY <1>1, <1>18, <1>19

\* One more call is recorded.
LEMMA ConsumedGrows ==
  /\ CyclesConsumed(<< >>) = 0
  /\ \A watched \in Seq(Call) : CyclesConsumed(watched) \in Int
  /\ \A watched \in Seq(Call), c \in Call :
       CyclesConsumed(Append(watched, c)) = CyclesConsumed(watched) + Spent(c)
  <1>1. CyclesConsumed(<< >>) = 0
    <2>0. << >> \in Seq(Call) /\ Len(<< >>) = 0
      OBVIOUS
    <2>1. PICK none \in Seq(Call) : none = << >> /\ Len(none) = 0
      BY <2>0
    <2>2. PICK p : PartialSums(p, none) /\ CyclesConsumed(none) = p[Len(none)]
      BY ConsumedIs
    <2>3. p[0] = 0
      BY <2>2 DEF PartialSums
    <2> QED
      BY <2>1, <2>2, <2>3
  <1>2. ASSUME NEW watched \in Seq(Call) PROVE CyclesConsumed(watched) \in Int
    <2>1. PICK p : PartialSums(p, watched) /\ CyclesConsumed(watched) = p[Len(watched)]
      BY ConsumedIs
    <2>2. PICK n \in Nat : n = Len(watched)
      BY LenProperties
    <2> QED
      BY <2>1, <2>2 DEF PartialSums
  <1>3. ASSUME NEW watched \in Seq(Call), NEW c \in Call
        PROVE  CyclesConsumed(Append(watched, c)) = CyclesConsumed(watched) + Spent(c)
    <2>1. PICK n \in Nat : n = Len(watched)
      BY LenProperties
    <2>2. PICK more \in Seq(Call) :
            /\ more = Append(watched, c) /\ Len(more) = n + 1 /\ more[n + 1] = c
            /\ \A k \in 1 .. n : more[k] = watched[k]
      <3>1. /\ Append(watched, c) \in Seq(Call) /\ Len(Append(watched, c)) = Len(watched) + 1
            /\ \A k \in 1 .. Len(watched) : Append(watched, c)[k] = watched[k]
            /\ Append(watched, c)[Len(watched) + 1] = c
        BY AppendProperties
      <3> QED
        BY <2>1, <3>1
    <2>3. PICK p : PartialSums(p, watched) /\ CyclesConsumed(watched) = p[n]
      BY <2>1, ConsumedIs
    <2>4. PICK q : PartialSums(q, more) /\ CyclesConsumed(more) = q[n + 1]
      BY <2>2, ConsumedIs
    <2>5. /\ p[0] = 0 /\ q[0] = 0 /\ \A k \in 1 .. n : p[k] = p[k - 1] + Spent(watched[k])
          /\ \A k \in 1 .. n + 1 : q[k] = q[k - 1] + Spent(more[k])
      BY <2>1, <2>2, <2>3, <2>4 DEF PartialSums
    <2> DEFINE T == {k \in 0 .. n : p[k] # q[k]}
    <2>6. T \in SUBSET Nat
      OBVIOUS
    <2> HIDE DEF T
    <2>7. T = {}
      <3> SUFFICES ASSUME T # {} PROVE FALSE
        OBVIOUS
      <3>1. PICK k \in T : \A y \in T : k <= y
        BY <2>6, LeastNumber
      <3>2. k \in 1 .. n
        BY <2>5, <3>1 DEF T
      <3>3. PICK j \in 0 .. n : j = k - 1
        BY <3>2
      <3>4. j \notin T
        BY <2>6, <3>1, <3>3
      <3>5. p[j] = q[j]
        BY <3>4 DEF T
      <3>6. p[k] = p[j] + Spent(watched[k]) /\ q[k] = q[j] + Spent(watched[k])
        BY <2>2, <2>5, <3>2, <3>3
      <3> QED
        BY <3>1, <3>5, <3>6 DEF T
    <2>8. p[n] = q[n]
      BY <2>7 DEF T
    <2>9. q[n + 1] = q[n] + Spent(c)
      BY <2>2, <2>5
    <2> QED
      BY <2>2, <2>3, <2>4, <2>8, <2>9
  <1> QED
    BY <1>1, <1>2, <1>3


LEMMA NewTypes ==
  /\ NewMethod \in Method /\ NewCanister \in CanisterHandler /\ NewContext \in Context
  /\ NewContext.balance = StartBalance /\ NewContext.cycles = 0 /\ StartBalance \in Nat
  <1>1. StartBalance \in Nat
    BY MockAssumption
  <1>2. NewMethod \in Method
    <2>1. << >> \in Seq(MethodAtom)
      OBVIOUS
    <2> QED
      BY <2>1 DEF NewMethod, Method
  <1>3. NewCanister \in CanisterHandler
    <2>1. << >> \in [{} -> Handler] /\ {} \in SUBSET MethodNames
      OBVIOUS
    <2>2. << >> \in UNION {[N -> Handler] : N \in SUBSET MethodNames}
      BY <2>1
    <2> QED
      BY <2>2 DEF NewCanister, CanisterHandler
  <1> QED
    BY <1>1, <1>2, <1>3 DEF NewContext, Context

LEMMA MockInvInit == MockInit => MockInv
  <1> SUFFICES ASSUME MockInit PROVE MockInv
    OBVIOUS
  <1>1. MaxHandlers \in Nat /\ MaxCalls \in Nat
    BY MockAssumption
  <1>2. /\ balance = StartBalance /\ cycles = 0 /\ refunded = 0 /\ built = 0
        /\ handlers = << >> /\ calls = << >> /\ draft = NewMethod /\ canister = NewCanister
        /\ context = NewContext
        /\ ledger = [held |-> 2 * StartBalance, unwatched |-> StartBalance, risked |-> 0, set |-> FALSE]
    BY DEF MockInit
  <1>3. /\ ledger \in Ledger /\ ledger.held = 2 * StartBalance
        /\ ledger.unwatched = StartBalance /\ ledger.risked = 0
    BY <1>2, NewTypes DEF Ledger
  <1>4. Lost = 0 /\ context.cycles = 0
    BY <1>2, <1>3, NewTypes DEF Lost
  <1>5. RefundAtMostSent
    BY <1>2 DEF RefundAtMostSent
  <1>6. WatcherExplainsBalance
    BY <1>2, <1>3, NewTypes, ConsumedGrows DEF WatcherExplainsBalance, Unexplained
  <1>7. handlers \in Seq(Handler \cup CanisterHandler) /\ Len(handlers) <= MaxHandlers
        /\ calls \in Seq(Call) /\ Len(calls) <= MaxCalls
    BY <1>1, <1>2
  <1>8. 0 <= Lost /\ Lost + context.cycles <= ledger.risked
    BY <1>3, <1>4
  <1> QED
    BY <1>2, <1>3, <1>5, <1>6, <1>7, <1>8, NewTypes DEF MockInv

\* The cycles add up: b and c of the caller, cb and cc of the canister.
AddUp(b, c, cb, cc, held, unwatched, risked, used) ==
  /\ b + c + cb + cc <= held /\ held <= b + c + cb + risked
  /\ b + used <= unwatched /\ unwatched <= b + used + risked

LEMMA AddsUp ==
  ASSUME NEW b \in Nat, NEW c \in Nat, NEW cb \in Nat, NEW cc \in Nat, NEW held \in Int,
         NEW unwatched \in Int, NEW risked \in Nat, NEW used \in Int,
         AddUp(b, c, cb, cc, held, unwatched, risked, used)
  PROVE  /\ 0 <= held - (b + c + cb + cc) /\ held - (b + c + cb + cc) + cc <= risked
         /\ held - (b + c + cb + cc) <= risked
         /\ 0 <= unwatched - used - b /\ unwatched - used - b <= risked
  BY DEF AddUp

\* The numbers of a state
LEMMA Numbers ==
  ASSUME MockInv
  PROVE  \E b \in Nat, c \in Nat, cb \in Nat, cc \in Nat, held \in Int, unwatched \in Int,
            risked \in Nat, used \in Int :
           /\ b = balance /\ c = cycles /\ cb = context.balance /\ cc = context.cycles
           /\ held = ledger.held /\ unwatched = ledger.unwatched /\ risked = ledger.risked
           /\ used = CyclesConsumed(calls)
           /\ AddUp(b, c, cb, cc, held, unwatched, risked, used)
  <1>1. /\ balance \in Nat /\ cycles \in Nat /\ context.balance \in Nat /\ context.cycles \in Nat
        /\ ledger.held \in Int /\ ledger.unwatched \in Int /\ ledger.risked \in Nat
    BY DEF MockInv, Context, Ledger
  <1>2. CyclesConsumed(calls) \in Int
    BY ConsumedGrows DEF MockInv
  <1>3. PICK b \in Nat, c \in Nat, cb \in Nat, cc \in Nat, held \in Int, unwatched \in Int,
             risked \in Nat, used \in Int :
           /\ b = balance /\ c = cycles /\ cb = context.balance /\ cc = context.cycles
           /\ held = ledger.held /\ unwatched = ledger.unwatched /\ risked = ledger.risked
           /\ used = CyclesConsumed(calls)
    BY <1>1, <1>2
  <1>4. /\ 0 <= held - (b + c + cb + cc) /\ held - (b + c + cb + cc) + cc <= risked
        /\ 0 <= unwatched - used - b /\ unwatched - used - b <= risked
    BY <1>3 DEF MockInv, WatcherExplainsBalance, Lost, Unexplained
  <1>5. AddUp(b, c, cb, cc, held, unwatched, risked, used)
    BY <1>4 DEF AddUp
  <1> QED
    BY <1>3, <1>5

\* What a step has to respect
LEMMA NumbersKeep ==
  ASSUME balance' \in Nat, cycles' \in Nat, refunded' \in Nat, built' \in Nat,
         context' \in Context, ledger' \in Ledger,
         draft' \in Method, canister' \in CanisterHandler,
         handlers' \in Seq(Handler \cup CanisterHandler), Len(handlers') <= MaxHandlers,
         calls' \in Seq(Call), Len(calls') <= MaxCalls, RefundAtMostSent',
         NEW b \in Nat, NEW c \in Nat, NEW cb \in Nat, NEW cc \in Nat, NEW held \in Int,
         NEW unwatched \in Int, NEW risked \in Nat, NEW used \in Int,
         b = balance', c = cycles', cb = context'.balance, cc = context'.cycles,
         held = ledger'.held, unwatched = ledger'.unwatched, risked = ledger'.risked,
         used = CyclesConsumed(calls'),
         AddUp(b, c, cb, cc, held, unwatched, risked, used)
  PROVE  MockInv'
  <1>1. /\ 0 <= held - (b + c + cb + cc) /\ held - (b + c + cb + cc) + cc <= risked
        /\ 0 <= unwatched - used - b /\ unwatched - used - b <= risked
    <2>1. AddUp(b, c, cb, cc, held, unwatched, risked, used)
      OBVIOUS
    <2> QED
      BY <2>1, AddsUp
  <1>2. Lost' = held - (b + c + cb + cc) /\ Unexplained' = unwatched - used - b
    BY DEF Lost, Unexplained
  <1>3. /\ 0 <= Lost' /\ Lost' + context'.cycles <= ledger'.risked
        /\ 0 <= Unexplained' /\ Unexplained' <= ledger'.risked
    BY <1>1, <1>2
  <1> QED
    BY <1>3 DEF MockInv, WatcherExplainsBalance

\* A builder has no reach into the contexts.
LEMMA BuildKeeps ==
  ASSUME MockInv, Build, draft' \in Method, canister' \in CanisterHandler,
         handlers' \in Seq(Handler \cup CanisterHandler), Len(handlers') <= MaxHandlers
  PROVE  MockInv'
  <1>1. /\ built' = built + 1 /\ balance' = balance /\ cycles' = cycles /\ refunded' = refunded
        /\ context' = context /\ calls' = calls /\ ledger' = ledger
    BY DEF Build, BuildStep
  <1>2. /\ balance \in Nat /\ cycles \in Nat /\ refunded \in Nat /\ built \in Nat
        /\ context \in Context /\ ledger \in Ledger
        /\ calls \in Seq(Call) /\ Len(calls) <= MaxCalls
        /\ RefundAtMostSent /\ WatcherExplainsBalance
        /\ 0 <= Lost /\ Lost + context.cycles <= ledger.risked
    BY DEF MockInv
  <1>3. RefundAtMostSent' /\ WatcherExplainsBalance' /\ Lost' = Lost
    BY <1>1, <1>2 DEF Lost, RefundAtMostSent, WatcherExplainsBalance, Unexplained
  <1>4. built' \in Nat
    BY <1>1, <1>2
  <1> QED
    BY <1>1, <1>2, <1>3, <1>4 DEF MockInv

LEMMA BuildMethodKeeps ==
  ASSUME MockInv, NEW panics, NEW m \in Method, BuildMethod(panics, m)
  PROVE  MockInv'
  <1>1. draft' \in Method
    BY NewTypes DEF BuildMethod
  <1>2. Build /\ canister' = canister /\ handlers' = handlers
    BY DEF BuildMethod
  <1> QED
    BY <1>1, <1>2, BuildKeeps DEF MockInv

LEMMA AddAtomKeeps ==
  ASSUME MockInv, NEW a \in MethodAtom, AddAtom(a)
  PROVE  MockInv'
  <1>1. draft \in Method /\ draft.atoms \in Seq(MethodAtom)
    BY DEF MockInv, Method
  <1>2. Append(draft.atoms, a) \in Seq(MethodAtom)
    BY <1>1
  <1>3. PICK m \in Method : m = [draft EXCEPT !.atoms = Append(@, a)]
    BY <1>1, <1>2 DEF Method
  <1>4. BuildMethod(FALSE, m)
    BY <1>3 DEF AddAtom
  <1> QED
    BY <1>4, BuildMethodKeeps

LEMMA UseHandlerTypes ==
  ASSUME MockInv, NEW h \in Handler \cup CanisterHandler, UseHandler(h)
  PROVE  /\ handlers' \in Seq(Handler \cup CanisterHandler) /\ Len(handlers') <= MaxHandlers
         /\ draft' \in Method
  <1>1. /\ Len(handlers) < MaxHandlers /\ handlers' = Append(handlers, h) /\ draft' = NewMethod
        /\ handlers \in Seq(Handler \cup CanisterHandler) /\ MaxHandlers \in Nat
    BY MockAssumption DEF UseHandler, MockInv
  <1>2. handlers' \in Seq(Handler \cup CanisterHandler) /\ Len(handlers') = Len(handlers) + 1
        /\ Len(handlers) \in Nat
    BY <1>1
  <1>3. Len(handlers') <= MaxHandlers
    BY <1>1, <1>2
  <1> QED
    BY <1>1, <1>2, <1>3, NewTypes

LEMMA UseHandlerKeeps ==
  ASSUME MockInv, NEW h \in Handler \cup CanisterHandler, Build, UseHandler(h), UNCHANGED canister
  PROVE  MockInv'
  <1>1. canister' \in CanisterHandler
    BY DEF MockInv
  <1> QED
    BY <1>1, UseHandlerTypes, BuildKeeps

LEMMA BuildNextKeeps ==
  ASSUME MockInv, BuildNext
  PROVE  MockInv'
  <1>0. /\ draft \in Method /\ canister \in CanisterHandler /\ Amounts \subseteq Nat
        /\ handlers \in Seq(Handler \cup CanisterHandler) /\ Len(handlers) <= MaxHandlers
    BY MockAssumption DEF MockInv
  <1>1. ASSUME CyclesConsumeAll PROVE MockInv'
    <2>1. [op |-> "ConsumeAll", amount |-> 0] \in MethodAtom
      BY DEF MethodAtom
    <2> QED
      BY <1>1, <2>1, AddAtomKeeps DEF CyclesConsumeAll
  <1>2. ASSUME NEW n \in Amounts, CyclesConsume(n) \/ CyclesRefund(n) PROVE MockInv'
    <2>1. [op |-> "Consume", amount |-> n] \in MethodAtom /\ [op |-> "Refund", amount |-> n] \in MethodAtom
      BY DEF MethodAtom
    <2> QED
      BY <1>2, <2>1, AddAtomKeeps DEF CyclesConsume, CyclesRefund
  <1>3. ASSUME Response PROVE MockInv'
    <2>1. PICK m \in Method : m = [draft EXCEPT !.response = TRUE]
      BY <1>0 DEF Method
    <2> QED
      BY <1>3, <2>1, BuildMethodKeeps DEF Response
  <1>4. ASSUME NEW n \in Amounts, ExpectCycles(n) PROVE MockInv'
    <2>1. PICK m \in Method : m = [draft EXCEPT !.expected_cycles = n]
      BY <1>0 DEF Method
    <2> QED
      BY <1>4, <2>1, BuildMethodKeeps DEF ExpectCycles
  <1>5. ASSUME NEW a \in CallArgs, ExpectArguments(a) PROVE MockInv'
    <2>1. PICK m \in Method : m = [draft EXCEPT !.expected_args = a]
      BY <1>0 DEF Method
    <2> QED
      BY <1>5, <2>1, BuildMethodKeeps DEF ExpectArguments
  <1>6. ASSUME NEW n \in MethodNames, Name(n) PROVE MockInv'
    <2>1. PICK m \in Method : m = [draft EXCEPT !.name = n]
      BY <1>0 DEF Method
    <2> QED
      BY <1>6, <2>1, BuildMethodKeeps DEF Name
  <1>7. ASSUME NEW h \in Closures \cup {draft}, Or(h) PROVE MockInv'
    <2>1. h \in Handler
      BY <1>0, ClosuresAssumption DEF Handler
    <2>2. [canister EXCEPT !.default = h] \in CanisterHandler
      BY <1>0, <2>1 DEF CanisterHandler
    <2>3. canister' \in CanisterHandler /\ draft' \in Method /\ Build /\ handlers' = handlers
      BY <1>7, <2>2, NewTypes DEF Or
    <2> QED
      BY <1>0, <2>3, BuildKeeps
  <1>8. ASSUME NEW h \in Closures \cup {draft}, NEW n \in MethodNames, CanisterMethod(n, h) PROVE MockInv'
    <2>1. h \in Handler
      BY <1>0, ClosuresAssumption DEF Handler
    <2>2. PICK old : old = canister.methods
      OBVIOUS
    <2>3. PICK N \in SUBSET MethodNames : old \in [N -> Handler]
      BY <1>0, <2>2 DEF CanisterHandler
    <2>4. PICK new : new = [k \in DOMAIN old \cup {n} |-> IF k = n THEN h ELSE old[k]]
      OBVIOUS
    <2>5. new \in [N \cup {n} -> Handler] /\ N \cup {n} \in SUBSET MethodNames
      BY <2>1, <2>3, <2>4
    <2>6. new \in UNION {[M -> Handler] : M \in SUBSET MethodNames}
      BY <2>5
    <2>7. [canister EXCEPT !.methods = new] \in CanisterHandler
      BY <1>0, <2>6 DEF CanisterHandler
    <2>8. canister' = NewCanister \/ canister' = [canister EXCEPT !.methods = new]
      BY <1>8, <2>2, <2>4 DEF CanisterMethod
    <2>9. canister' \in CanisterHandler /\ draft' \in Method /\ Build /\ handlers' = handlers
      BY <1>8, <2>7, <2>8, NewTypes DEF CanisterMethod
    <2> QED
      BY <1>0, <2>9, BuildKeeps
  <1>9. ASSUME NEW h \in Closures, UseRaw(h) PROVE MockInv'
    <2>1. h \in Handler
      BY ClosuresAssumption DEF Handler
    <2> QED
      BY <1>9, <2>1, UseHandlerKeeps DEF UseRaw
  <1>10. ASSUME UseMethod PROVE MockInv'
    BY <1>0, <1>10, UseHandlerKeeps DEF UseMethod, Handler
  <1>11. ASSUME NEW n \in Amounts, UseCanister(n) PROVE MockInv'
    <2>0. PICK b \in Nat, c \in Nat, cb \in Nat, cc \in Nat, held \in Int, unwatched \in Int,
               risked \in Nat, used \in Int :
            /\ b = balance /\ c = cycles /\ cb = context.balance /\ cc = context.cycles
            /\ held = ledger.held /\ unwatched = ledger.unwatched /\ risked = ledger.risked
            /\ used = CyclesConsumed(calls)
            /\ AddUp(b, c, cb, cc, held, unwatched, risked, used)
      BY Numbers
    <2>1. /\ balance' = balance /\ cycles' = cycles /\ refunded' = refunded /\ calls' = calls
          /\ built' = built + 1 /\ UseHandler(canister) /\ canister' = NewCanister
          /\ context' = [context EXCEPT !.balance = n]
          /\ ledger' = [ledger EXCEPT !.held = @ - context.balance + n]
      BY <1>11 DEF UseCanister, BuildStep
    <2>2. /\ refunded \in Nat /\ built \in Nat /\ context \in Context /\ ledger \in Ledger
          /\ calls \in Seq(Call) /\ Len(calls) <= MaxCalls /\ RefundAtMostSent /\ n \in Nat
      BY <1>0 DEF MockInv
    <2>3. PICK now \in Int : now = held - cb + n
      BY <2>2
    <2>4. ledger' = [ledger EXCEPT !.held = now]
      BY <2>0, <2>1, <2>2, <2>3
    <2>5. /\ ledger' \in Ledger /\ ledger'.held = now /\ ledger'.unwatched = unwatched
          /\ ledger'.risked = risked /\ ledger'.set = ledger.set
      BY <2>0, <2>2, <2>4 DEF Ledger
    <2>6. context' \in Context /\ context'.balance = n /\ context'.cycles = cc
      BY <2>0, <2>1, <2>2 DEF Context
    <2>7. AddUp(b, c, n, cc, now, unwatched, risked, used)
      <3>1. AddUp(b, c, cb, cc, held, unwatched, risked, used) /\ n \in Nat
        BY <2>0, <2>2
      <3> QED
        BY <2>3, <3>1 DEF AddUp
    <2>8. RefundAtMostSent'
      BY <2>1, <2>2, <2>5 DEF RefundAtMostSent
    <2>9. built' \in Nat
      <3>1. built' = built + 1 /\ built \in Nat
        BY <2>1, <2>2
      <3> QED
        BY <3>1
    <2>10. /\ handlers' \in Seq(Handler \cup CanisterHandler) /\ Len(handlers') <= MaxHandlers
           /\ draft' \in Method /\ canister' \in CanisterHandler
      BY <1>0, <2>1, UseHandlerTypes, NewTypes
    <2> QED
      BY <2>0, <2>1, <2>2, <2>5, <2>6, <2>7, <2>8, <2>9, <2>10, NumbersKeep
  <1>12. ASSUME ClearHandlers PROVE MockInv'
    <2>0. PICK b \in Nat, c \in Nat, cb \in Nat, cc \in Nat, held \in Int, unwatched \in Int,
               risked \in Nat, used \in Int :
            /\ b = balance /\ c = cycles /\ cb = context.balance /\ cc = context.cycles
            /\ held = ledger.held /\ unwatched = ledger.unwatched /\ risked = ledger.risked
            /\ used = CyclesConsumed(calls)
            /\ AddUp(b, c, cb, cc, held, unwatched, risked, used)
      BY Numbers
    <2>1. /\ handlers' = << >> /\ context' = NewContext
          /\ ledger' = [ledger EXCEPT !.held = @ + StartBalance - context.balance - context.cycles]
          /\ balance' = balance /\ cycles' = cycles /\ refunded' = refunded
          /\ draft' = draft /\ canister' = canister /\ calls' = calls /\ built' = built
      BY <1>12 DEF ClearHandlers
    <2>2. /\ refunded \in Nat /\ built \in Nat /\ context \in Context /\ ledger \in Ledger
          /\ calls \in Seq(Call) /\ Len(calls) <= MaxCalls /\ RefundAtMostSent
      BY DEF MockInv
    <2>3. PICK now \in Int, start \in Nat : start = StartBalance /\ now = held + start - cb - cc
      BY NewTypes
    <2>4. ledger' = [ledger EXCEPT !.held = now]
      BY <2>0, <2>1, <2>2, <2>3
    <2>5. /\ ledger' \in Ledger /\ ledger'.held = now /\ ledger'.unwatched = unwatched
          /\ ledger'.risked = risked /\ ledger'.set = ledger.set
      BY <2>0, <2>2, <2>4 DEF Ledger
    <2>6. PICK zero \in Nat : zero = 0
      OBVIOUS
    <2>7. AddUp(b, c, start, zero, now, unwatched, risked, used)
      BY <2>0, <2>3, <2>6 DEF AddUp
    <2>8. context' \in Context /\ context'.balance = start /\ context'.cycles = zero
      BY <2>1, <2>3, <2>6, NewTypes
    <2>9. RefundAtMostSent'
      BY <2>1, <2>2, <2>5 DEF RefundAtMostSent
    <2>10. handlers' \in Seq(Handler \cup CanisterHandler) /\ Len(handlers') <= MaxHandlers
      BY <2>1, MockAssumption
    <2> QED
      BY <1>0, <2>0, <2>1, <2>2, <2>5, <2>7, <2>8, <2>9, <2>10, NumbersKeep
  <1> QED
    BY <1>1, <1>2, <1>3, <1>4, <1>5, <1>6, <1>7, <1>8, <1>9, <1>10, <1>11, <1>12 DEF BuildNext


\* What a step of the contexts has to respect
LEMMA ContextKeeps ==
  ASSUME MockInv, UNCHANGED << handlers, draft, canister, built >>,
         refunded' \in Nat, context' \in Context, ledger' \in Ledger,
         calls' \in Seq(Call), Len(calls') <= MaxCalls, RefundAtMostSent',
         NEW b \in Nat, NEW c \in Nat, NEW cb \in Nat, NEW cc \in Nat, NEW held \in Int,
         NEW unwatched \in Int, NEW risked \in Nat, NEW used \in Int,
         b = balance', c = cycles', cb = context'.balance, cc = context'.cycles,
         held = ledger'.held, unwatched = ledger'.unwatched, risked = ledger'.risked,
         used = CyclesConsumed(calls'),
         AddUp(b, c, cb, cc, held, unwatched, risked, used)
  PROVE  MockInv'
  <1>1. /\ built' \in Nat /\ draft' \in Method /\ canister' \in CanisterHandler
        /\ handlers' \in Seq(Handler \cup CanisterHandler) /\ Len(handlers') <= MaxHandlers
        /\ balance' \in Nat /\ cycles' \in Nat
    BY DEF MockInv
  <1> QED
    BY <1>1, NumbersKeep

\* The end of a call that returns: the refund is added and the call recorded.
LEMMA ReplyRecords ==
  ASSUME MockInv, NEW id0 \in {CanisterId, OtherId}, NEW method \in MethodNames, NEW args \in CallArgs,
         NEW n \in Nat, NEW refund \in Nat, n <= balance, Len(calls) < MaxCalls,
         ledger'.set \/ (~ ledger.set /\ refund <= n),
         Reply(id0, method, args, n, refund)
  PROVE  /\ balance' = balance - n + refund /\ balance' \in Nat /\ refunded' \in Nat
         /\ calls' \in Seq(Call) /\ Len(calls') <= MaxCalls /\ RefundAtMostSent'
         /\ CyclesConsumed(calls') = CyclesConsumed(calls) + (n - refund)
  <1>1. /\ balance \in Nat /\ calls \in Seq(Call) /\ RefundAtMostSent /\ MaxCalls \in Nat
    BY MockAssumption DEF MockInv
  <1>2. PICK c : c = [canister_id |-> id0, method_name |-> method, args_raw |-> args,
                      cycles_sent |-> n, cycles_refunded |-> refund]
    OBVIOUS
  <1>3. c \in Call /\ c.cycles_sent = n /\ c.cycles_refunded = refund
    BY <1>2 DEF Call
  <1>4. /\ refunded' = refund /\ balance' = balance - n + refund /\ calls' = Append(calls, c)
    BY <1>2 DEF Reply
  <1>5. PICK k \in Nat : k = Len(calls)
    BY <1>1, LenProperties
  <1>6. /\ calls' \in Seq(Call) /\ Len(calls') = k + 1 /\ calls'[k + 1] = c
        /\ \A i \in 1 .. k : calls'[i] = calls[i]
    <2>1. /\ Append(calls, c) \in Seq(Call) /\ Len(Append(calls, c)) = Len(calls) + 1
          /\ \A i \in 1 .. Len(calls) : Append(calls, c)[i] = calls[i]
          /\ Append(calls, c)[Len(calls) + 1] = c
      BY <1>1, <1>3, AppendProperties
    <2> QED
      BY <1>4, <1>5, <2>1
  <1>7. RefundAtMostSent'
    <2>1. ASSUME ~ ledger'.set, NEW i \in DOMAIN calls'
          PROVE  calls'[i].cycles_refunded <= calls'[i].cycles_sent
      <3>1. i \in 1 .. k + 1 /\ ~ ledger.set /\ refund <= n
        BY <1>6, <2>1
      <3>2. CASE i = k + 1
        BY <1>3, <1>6, <3>1, <3>2
      <3>3. CASE i # k + 1
        <4>1. i \in 1 .. k /\ i \in DOMAIN calls
          BY <1>1, <1>5, <3>1, <3>3
        <4> QED
          BY <1>1, <1>6, <3>1, <4>1 DEF RefundAtMostSent
      <3> QED
        BY <3>2, <3>3
    <2> QED
      BY <2>1 DEF RefundAtMostSent
  <1>8. CyclesConsumed(calls') = CyclesConsumed(calls) + (n - refund)
    BY <1>1, <1>3, <1>4, ConsumedGrows DEF Spent
  <1>9. balance' \in Nat /\ Len(calls') <= MaxCalls
    BY <1>1, <1>4, <1>5, <1>6
  <1> QED
    BY <1>4, <1>6, <1>7, <1>8, <1>9

LEMMA CallHandlerKeeps ==
  ASSUME MockInv, NEW id0 \in {CanisterId, OtherId}, NEW method \in MethodNames, NEW args \in CallArgs,
         NEW n \in Nat, n <= balance, Len(calls) < MaxCalls, NEW i \in DOMAIN handlers,
         CallHandler(id0, method, args, n, i), UNCHANGED << cycles, handlers, draft, canister, built >>
  PROVE  MockInv'
  <1>1. PICK b \in Nat, c \in Nat, cb \in Nat, cc \in Nat, held \in Int, unwatched \in Int,
             risked \in Nat, used \in Int :
          /\ b = balance /\ c = cycles /\ cb = context.balance /\ cc = context.cycles
          /\ held = ledger.held /\ unwatched = ledger.unwatched /\ risked = ledger.risked
          /\ used = CyclesConsumed(calls)
          /\ AddUp(b, c, cb, cc, held, unwatched, risked, used)
    BY Numbers
  <1>0. n <= b
    BY <1>1
  <1>2. PICK h \in Handler : h = handlers[i]
    <2>1. handlers[i] \in Handler \cup CanisterHandler
      BY DEF MockInv
    <2> QED
      BY <2>1 DEF CallHandler, CanisterHandler
  <1>3. PICK ctx \in Context : ctx = DefaultContext(n) /\ ctx.cycles = n
    <2>1. [balance |-> StartBalance, cycles |-> n] \in Context
      BY NewTypes DEF Context
    <2> QED
      BY <2>1 DEF DefaultContext
  <1>4. PICK after : after = Perform(h, ctx, args)
    OBVIOUS
  <1>5. PICK r \in Nat, carried \in Nat :
          r = after.ctx.cycles /\ carried = Carried(h, n) /\ r <= carried
    <2>1. /\ Carried(h, ctx.cycles) \in Nat
          /\ after \in Outcomes(ctx.balance + ctx.cycles + Put(h, ctx), Carried(h, ctx.cycles))
      BY <1>4, PerformConserves
    <2> QED
      BY <1>3, <2>1 DEF Outcomes, Context
  <1>6. \/ NoReply(n) /\ Panicked(n)
        \/ /\ Reply(id0, method, args, n, r)
           /\ ledger' = [ledger EXCEPT !.held = @ - (n - r), !.set = @ \/ carried > n]
    BY <1>2, <1>3, <1>4, <1>5 DEF CallHandler
  <1>7. /\ context' = context /\ context \in Context /\ cycles' = cycles /\ refunded \in Nat
        /\ ledger \in Ledger /\ ledger.set \in BOOLEAN
        /\ calls \in Seq(Call) /\ Len(calls) <= MaxCalls /\ RefundAtMostSent
    BY DEF CallHandler, MockInv, Ledger
  <1>8. CASE NoReply(n) /\ Panicked(n)
    <2>1. balance' = b - n /\ refunded' = refunded /\ calls' = calls
      BY <1>1, <1>8 DEF NoReply
    <2>2. PICK b2 \in Nat, r2 \in Nat : b2 = b - n /\ r2 = risked + n
      BY <1>0
    <2>3. ledger' = [ledger EXCEPT !.risked = r2]
      BY <1>1, <1>7, <1>8, <2>2 DEF Panicked
    <2>4. /\ ledger' \in Ledger /\ ledger'.held = held /\ ledger'.unwatched = unwatched
          /\ ledger'.risked = r2 /\ ledger'.set = ledger.set
      BY <1>1, <1>7, <2>3 DEF Ledger
    <2>5. AddUp(b2, c, cb, cc, held, unwatched, r2, used)
      <3>1. AddUp(b, c, cb, cc, held, unwatched, risked, used)
        BY <1>1
      <3> QED
        BY <2>2, <3>1 DEF AddUp
    <2>6. RefundAtMostSent'
      BY <1>7, <2>1, <2>4 DEF RefundAtMostSent
    <2> QED
      BY <1>1, <1>7, <2>1, <2>2, <2>4, <2>5, <2>6, ContextKeeps
  <1>9. CASE /\ Reply(id0, method, args, n, r)
             /\ ledger' = [ledger EXCEPT !.held = @ - (n - r), !.set = @ \/ carried > n]
    <2>0. PICK set2 \in BOOLEAN : set2 = (ledger.set \/ carried > n)
      BY Zenon
    <2>1. PICK h2 \in Int : h2 = held - (n - r)
      OBVIOUS
    <2>2. ledger' = [ledger EXCEPT !.held = h2, !.set = set2]
      BY <1>1, <1>7, <1>9, <2>0, <2>1
    <2>3. /\ ledger' \in Ledger /\ ledger'.held = h2 /\ ledger'.unwatched = unwatched
          /\ ledger'.risked = risked /\ ledger'.set = set2
      BY <1>1, <1>7, <2>2 DEF Ledger
    <2>4. ledger'.set \/ (~ ledger.set /\ r <= n)
      <3>1. carried > n \/ r <= n
        BY <1>5
      <3> QED
        BY <2>0, <2>3, <3>1, Zenon
    <2>5. /\ balance' = balance - n + r /\ balance' \in Nat /\ refunded' \in Nat
          /\ calls' \in Seq(Call) /\ Len(calls') <= MaxCalls /\ RefundAtMostSent'
          /\ CyclesConsumed(calls') = CyclesConsumed(calls) + (n - r)
      BY <1>9, <2>4, ReplyRecords
    <2>6. PICK b2 \in Nat, used2 \in Int : b2 = b - n + r /\ used2 = used + (n - r)
      BY <1>0
    <2>7. AddUp(b2, c, cb, cc, h2, unwatched, risked, used2)
      <3>1. AddUp(b, c, cb, cc, held, unwatched, risked, used)
        BY <1>1
      <3> QED
        BY <2>1, <2>6, <3>1 DEF AddUp
    <2>8. b2 = balance' /\ used2 = CyclesConsumed(calls')
      BY <1>1, <2>5, <2>6
    <2> QED
      BY <1>1, <1>7, <2>3, <2>5, <2>7, <2>8, ContextKeeps
  <1> QED
    BY <1>6, <1>8, <1>9


LEMMA CallCanisterKeeps ==
  ASSUME MockInv, NEW id0 \in {CanisterId, OtherId}, NEW method \in MethodNames, NEW args \in CallArgs,
         NEW n \in Nat, n <= balance, Len(calls) < MaxCalls, NEW i \in DOMAIN handlers,
         Accepts(handlers[i], id0, method),
         CallCanister(id0, method, args, n, i), UNCHANGED << cycles, handlers, draft, canister, built >>
  PROVE  MockInv'
  <1>1. PICK b \in Nat, c \in Nat, cb \in Nat, cc \in Nat, held \in Int, unwatched \in Int,
             risked \in Nat, used \in Int :
          /\ b = balance /\ c = cycles /\ cb = context.balance /\ cc = context.cycles
          /\ held = ledger.held /\ unwatched = ledger.unwatched /\ risked = ledger.risked
          /\ used = CyclesConsumed(calls)
          /\ AddUp(b, c, cb, cc, held, unwatched, risked, used)
    BY Numbers
  <1>0. n <= b
    BY <1>1
  <1>2. PICK h \in Handler : h = Dispatch(handlers[i], method)
    <2>1. handlers[i] \in Handler \cup CanisterHandler /\ handlers[i].kind = "canister"
      BY DEF MockInv, CallCanister
    <2>2. PICK k \in CanisterHandler : k = handlers[i]
      BY <2>1 DEF Handler, Method, RawHandler
    <2>3. k.default # Unset \/ method \in DOMAIN k.methods
      BY <2>1, <2>2 DEF Accepts
    <2>4. k.default # Unset => k.default \in Handler
      BY DEF CanisterHandler
    <2>5. method \in DOMAIN k.methods => k.methods[method] \in Handler
      <3>1. PICK N \in SUBSET MethodNames : k.methods \in [N -> Handler]
        BY DEF CanisterHandler
      <3> QED
        BY <3>1
    <2> QED
      BY <2>2, <2>3, <2>4, <2>5 DEF Dispatch
  <1>3. PICK ctx \in Context : ctx = CanisterContext(context, n) /\ ctx.cycles = n /\ ctx.balance = cb
    <2>1. context \in Context
      BY DEF MockInv
    <2>2. [context EXCEPT !.cycles = n] \in Context
      BY <2>1 DEF Context
    <2>3. [context EXCEPT !.cycles = n].cycles = n /\ [context EXCEPT !.cycles = n].balance = context.balance
      BY <2>1 DEF Context
    <2> QED
      BY <1>1, <2>2, <2>3 DEF CanisterContext
  <1>4. PICK after : after = Perform(h, ctx, args)
    OBVIOUS
  <1>5. PICK d \in Context, r \in Nat, rb \in Nat, put \in Int, carried \in Nat :
          /\ d = after.ctx /\ r = d.cycles /\ rb = d.balance
          /\ put = Put(h, ctx) /\ carried = Carried(h, n) /\ r <= carried /\ rb + r = cb + n + put
    <2>1. /\ Put(h, ctx) \in Int /\ Carried(h, ctx.cycles) \in Nat
          /\ after \in Outcomes(ctx.balance + ctx.cycles + Put(h, ctx), Carried(h, ctx.cycles))
      BY <1>4, PerformConserves
    <2>2. /\ after.ctx \in Context /\ after.ctx.balance + after.ctx.cycles = cb + n + Put(h, ctx)
          /\ after.ctx.cycles <= Carried(h, n) /\ Carried(h, n) \in Nat
      BY <1>3, <2>1 DEF Outcomes
    <2>3. after.ctx.balance \in Nat /\ after.ctx.cycles \in Nat
      BY <2>2 DEF Context
    <2> QED
      BY <2>1, <2>2, <2>3
  <1>55. r <= carried /\ rb + r = cb + n + put
    BY <1>5
  <1>7. /\ cycles' = cycles /\ refunded \in Nat /\ ledger \in Ledger /\ ledger.set \in BOOLEAN
        /\ calls \in Seq(Call) /\ Len(calls) <= MaxCalls /\ RefundAtMostSent
    BY DEF MockInv, Ledger
  <1>10. PICK h2 \in Int, l \in Ledger :
           /\ h2 = held + put /\ l = [ledger EXCEPT !.held = h2]
           /\ l.held = h2 /\ l.unwatched = unwatched /\ l.risked = risked /\ l.set = ledger.set
    <2>1. PICK h2 \in Int : h2 = held + put
      OBVIOUS
    <2>2. PICK l : l = [ledger EXCEPT !.held = h2]
      OBVIOUS
    <2>3. l \in Ledger /\ l.held = h2
      BY <1>7, <2>2 DEF Ledger
    <2>4. l.unwatched = unwatched /\ l.risked = risked /\ l.set = ledger.set
      BY <1>1, <1>7, <2>2 DEF Ledger
    <2> QED
      BY <2>1, <2>2, <2>3, <2>4
  <1>11. [ledger EXCEPT !.held = @ + Put(h, ctx)] = l
    BY <1>1, <1>5, <1>7, <1>10 DEF Ledger
  <1>6. \/ /\ NoReply(n) /\ context' = d /\ ledger' = [l EXCEPT !.risked = @ + carried]
        \/ /\ Reply(id0, method, args, n, r) /\ context' = [d EXCEPT !.cycles = 0]
           /\ ledger' = [l EXCEPT !.set = @ \/ carried > n]
    BY <1>2, <1>3, <1>4, <1>5, <1>11 DEF CallCanister
  <1>8. CASE NoReply(n) /\ context' = d /\ ledger' = [l EXCEPT !.risked = @ + carried]
    <2>1. balance' = b - n /\ refunded' = refunded /\ calls' = calls
      BY <1>1, <1>8 DEF NoReply
    <2>2. PICK b2 \in Nat, r2 \in Nat : b2 = b - n /\ r2 = risked + carried
      BY <1>0
    <2>3. ledger' = [l EXCEPT !.risked = r2]
      BY <1>8, <1>10, <2>2
    <2>4. /\ ledger' \in Ledger /\ ledger'.held = h2 /\ ledger'.unwatched = unwatched
          /\ ledger'.risked = r2 /\ ledger'.set = ledger.set
      BY <1>10, <2>3 DEF Ledger
    <2>5. AddUp(b2, c, rb, r, h2, unwatched, r2, used)
      <3>1. h2 = held + put
        BY <1>10
      <3>2. /\ b + c + cb + cc <= held /\ held <= b + c + cb + risked
            /\ b + used <= unwatched /\ unwatched <= b + used + risked
        BY <1>1 DEF AddUp
      <3>3. b2 + c + rb + r <= h2
        BY <1>55, <2>2, <3>1, <3>2
      <3>4. h2 <= b2 + c + rb + r2
        BY <1>55, <2>2, <3>1, <3>2
      <3>5. b2 + used <= unwatched
        BY <2>2, <3>2
      <3>6. n <= carried
        BY <1>5 DEF Carried
      <3>7. unwatched <= b2 + used + r2
        BY <2>2, <3>2, <3>6
      <3> QED
        BY <3>3, <3>4, <3>5, <3>7 DEF AddUp
    <2>6. RefundAtMostSent'
      BY <1>7, <2>1, <2>4 DEF RefundAtMostSent
    <2>7. /\ context' \in Context /\ b2 = balance' /\ c = cycles' /\ rb = context'.balance
          /\ r = context'.cycles /\ used = CyclesConsumed(calls')
      BY <1>1, <1>5, <1>7, <1>8, <2>1, <2>2
    <2>8. refunded' \in Nat /\ calls' \in Seq(Call) /\ Len(calls') <= MaxCalls
      BY <1>7, <2>1
    <2> QED
      BY <2>4, <2>5, <2>6, <2>7, <2>8, ContextKeeps
  <1>9. CASE /\ Reply(id0, method, args, n, r) /\ context' = [d EXCEPT !.cycles = 0]
             /\ ledger' = [l EXCEPT !.set = @ \/ carried > n]
    <2>1. PICK set2 \in BOOLEAN : set2 = (ledger.set \/ carried > n)
      BY Zenon
    <2>2. ledger' = [l EXCEPT !.set = set2]
      BY <1>9, <1>10, <2>1
    <2>3. /\ ledger' \in Ledger /\ ledger'.held = h2 /\ ledger'.unwatched = unwatched
          /\ ledger'.risked = risked /\ ledger'.set = set2
      BY <1>10, <2>2 DEF Ledger
    <2>4. ledger'.set \/ (~ ledger.set /\ r <= n)
      <3>1. carried > n \/ r <= n
        BY <1>5
      <3> QED
        BY <2>1, <2>3, <3>1, Zenon
    <2>5. /\ balance' = balance - n + r /\ balance' \in Nat /\ refunded' \in Nat
          /\ calls' \in Seq(Call) /\ Len(calls') <= MaxCalls /\ RefundAtMostSent'
          /\ CyclesConsumed(calls') = CyclesConsumed(calls) + (n - r)
      BY <1>9, <2>4, ReplyRecords
    <2>6. PICK b2 \in Nat, used2 \in Int, zero \in Nat :
            b2 = b - n + r /\ used2 = used + (n - r) /\ zero = 0
      BY <1>0
    <2>7. context' \in Context /\ context'.balance = rb /\ context'.cycles = zero
      BY <1>5, <1>9, <2>6 DEF Context
    <2>8. AddUp(b2, c, rb, zero, h2, unwatched, risked, used2)
      <3>1. h2 = held + put /\ AddUp(b, c, cb, cc, held, unwatched, risked, used)
        BY <1>1, <1>10
      <3> QED
        BY <1>0, <1>55, <2>6, <3>1 DEF AddUp
    <2>9. b2 = balance' /\ used2 = CyclesConsumed(calls')
      BY <1>1, <2>5, <2>6
    <2> QED
      BY <1>1, <1>7, <2>3, <2>5, <2>6, <2>7, <2>8, <2>9, ContextKeeps
  <1> QED
    BY <1>6, <1>8, <1>9

LEMMA ContextNextKeeps ==
  ASSUME MockInv, ContextNext
  PROVE  MockInv'
  <1>1. PICK b \in Nat, c \in Nat, cb \in Nat, cc \in Nat, held \in Int, unwatched \in Int,
             risked \in Nat, used \in Int :
          /\ b = balance /\ c = cycles /\ cb = context.balance /\ cc = context.cycles
          /\ held = ledger.held /\ unwatched = ledger.unwatched /\ risked = ledger.risked
          /\ used = CyclesConsumed(calls)
          /\ AddUp(b, c, cb, cc, held, unwatched, risked, used)
    BY Numbers
  <1>2. AddUp(b, c, cb, cc, held, unwatched, risked, used)
    BY <1>1
  <1>3. /\ refunded \in Nat /\ context \in Context /\ ledger \in Ledger
        /\ calls \in Seq(Call) /\ Len(calls) <= MaxCalls /\ RefundAtMostSent /\ Amounts \subseteq Nat
        /\ MaxCalls \in Nat
    BY MockAssumption DEF MockInv
  <1>4. ASSUME NEW n \in Amounts, MsgCyclesAccept(n) PROVE MockInv'
    <2>1. PICK mine \in Context : mine = [balance |-> balance, cycles |-> cycles]
            /\ mine.balance = b /\ mine.cycles = c
      <3>1. [balance |-> b, cycles |-> c] \in Context
        BY DEF Context
      <3> QED
        BY <1>1, <3>1
    <2>2. PICK a \in Nat : a = Accepted(c, n) /\ a <= c
      BY <1>3 DEF Accepted
    <2>3. Accept(mine, n).balance = b + a /\ Accept(mine, n).cycles = c - a
      BY <2>1, <2>2 DEF Accept, Context
    <2>4. /\ balance' = b + a /\ cycles' = c - a /\ ledger' = [ledger EXCEPT !.unwatched = @ + a]
          /\ UNCHANGED << refunded, handlers, draft, canister, context, calls, built >>
      BY <1>1, <1>4, <2>1, <2>2, <2>3 DEF MsgCyclesAccept
    <2>5. a <= c
      BY <2>2
    <2>6. PICK u2 \in Int, b2 \in Nat, c2 \in Nat : u2 = unwatched + a /\ b2 = b + a /\ c2 = c - a
      BY <2>5
    <2>7. ledger' = [ledger EXCEPT !.unwatched = u2]
      BY <1>1, <1>3, <2>4, <2>6
    <2>8. /\ ledger' \in Ledger /\ ledger'.held = held /\ ledger'.unwatched = u2
          /\ ledger'.risked = risked /\ ledger'.set = ledger.set
      BY <1>1, <1>3, <2>7 DEF Ledger
    <2>9. AddUp(b2, c2, cb, cc, held, u2, risked, used)
      BY <1>2, <2>6 DEF AddUp
    <2>10. RefundAtMostSent'
      BY <1>3, <2>4, <2>8 DEF RefundAtMostSent
    <2> QED
      BY <1>1, <1>3, <2>4, <2>6, <2>8, <2>9, <2>10, ContextKeeps
  <1>5. ASSUME NEW n \in Amounts, UpdateBalance(n) PROVE MockInv'
    <2>1. PICK h2 \in Int, u2 \in Int, b2 \in Nat : h2 = held - b + n /\ u2 = n + used /\ b2 = n
      BY <1>3
    <2>2. /\ balance' = n /\ ledger' = [ledger EXCEPT !.held = h2, !.unwatched = u2]
          /\ UNCHANGED << cycles, refunded, handlers, draft, canister, context, calls, built >>
      BY <1>1, <1>3, <1>5, <2>1 DEF UpdateBalance
    <2>3. /\ ledger' \in Ledger /\ ledger'.held = h2 /\ ledger'.unwatched = u2
          /\ ledger'.risked = risked /\ ledger'.set = ledger.set
      BY <1>1, <1>3, <2>2 DEF Ledger
    <2>4. AddUp(b2, c, cb, cc, h2, u2, risked, used)
      BY <1>2, <2>1 DEF AddUp
    <2>5. RefundAtMostSent'
      BY <1>3, <2>2, <2>3 DEF RefundAtMostSent
    <2> QED
      BY <1>1, <1>3, <2>1, <2>2, <2>3, <2>4, <2>5, ContextKeeps
  <1>6. ASSUME NEW n \in Amounts, UpdateMsgCycles(n) PROVE MockInv'
    <2>1. PICK h2 \in Int, c2 \in Nat : h2 = held - c + n /\ c2 = n
      BY <1>3
    <2>2. /\ cycles' = n /\ ledger' = [ledger EXCEPT !.held = h2]
          /\ UNCHANGED << balance, refunded, handlers, draft, canister, context, calls, built >>
      BY <1>1, <1>3, <1>6, <2>1 DEF UpdateMsgCycles
    <2>3. /\ ledger' \in Ledger /\ ledger'.held = h2 /\ ledger'.unwatched = unwatched
          /\ ledger'.risked = risked /\ ledger'.set = ledger.set
      BY <1>1, <1>3, <2>2 DEF Ledger
    <2>4. AddUp(b, c2, cb, cc, h2, unwatched, risked, used)
      BY <1>2, <2>1 DEF AddUp
    <2>5. RefundAtMostSent'
      BY <1>3, <2>2, <2>3 DEF RefundAtMostSent
    <2> QED
      BY <1>1, <1>3, <2>1, <2>2, <2>3, <2>4, <2>5, ContextKeeps
  <1>7. ASSUME NEW id0 \in {CanisterId, OtherId}, NEW method \in MethodNames, NEW n \in Amounts,
               CallUnhandled(id0, method, n)
        PROVE  MockInv'
    <2>1. n <= b /\ n \in Nat
      BY <1>1, <1>3, <1>7 DEF CallUnhandled
    <2>2. PICK r2 \in Nat, b2 \in Nat : r2 = risked + n /\ b2 = b - n
      BY <2>1
    <2>3. /\ balance' = b - n /\ ledger' = [ledger EXCEPT !.risked = r2]
          /\ UNCHANGED << cycles, refunded, handlers, draft, canister, context, calls, built >>
      BY <1>1, <1>3, <1>7, <2>2 DEF CallUnhandled, Panicked
    <2>4. /\ ledger' \in Ledger /\ ledger'.held = held /\ ledger'.unwatched = unwatched
          /\ ledger'.risked = r2 /\ ledger'.set = ledger.set
      BY <1>1, <1>3, <2>3 DEF Ledger
    <2>5. AddUp(b2, c, cb, cc, held, unwatched, r2, used)
      BY <1>2, <2>1, <2>2 DEF AddUp
    <2>6. RefundAtMostSent'
      BY <1>3, <2>3, <2>4 DEF RefundAtMostSent
    <2> QED
      BY <1>1, <1>3, <2>2, <2>3, <2>4, <2>5, <2>6, ContextKeeps
  <1>8. ASSUME NEW id0 \in {CanisterId, OtherId}, NEW method \in MethodNames, NEW n \in Amounts,
               NEW args \in CallArgs, CallRaw(id0, method, args, n)
        PROVE  MockInv'
    <2>1. PICK i \in Accepting(id0, method) :
            CallHandler(id0, method, args, n, i) \/ CallCanister(id0, method, args, n, i)
      BY <1>8 DEF CallRaw
    <2>2. i \in DOMAIN handlers /\ Accepts(handlers[i], id0, method)
      BY DEF Accepting
    <2>3. /\ n \in Nat /\ n <= balance /\ Len(calls) < MaxCalls
          /\ UNCHANGED << cycles, handlers, draft, canister, built >>
      BY <1>3, <1>8 DEF CallRaw
    <2> QED
      BY <2>1, <2>2, <2>3, CallHandlerKeeps, CallCanisterKeeps
  <1>9. ASSUME Watch PROVE MockInv'
    <2>1. /\ calls' = << >> /\ ledger' = [ledger EXCEPT !.unwatched = b, !.set = FALSE]
          /\ UNCHANGED << balance, cycles, refunded, handlers, draft, canister, context, built >>
      BY <1>1, <1>9 DEF Watch
    <2>2. PICK u2 \in Int, none \in Int : u2 = b /\ none = 0
      OBVIOUS
    <2>3. ledger' = [ledger EXCEPT !.unwatched = u2, !.set = FALSE]
      BY <2>1, <2>2
    <2>4. /\ ledger' \in Ledger /\ ledger'.held = held /\ ledger'.unwatched = u2
          /\ ledger'.risked = risked
      BY <1>1, <1>3, <2>3 DEF Ledger
    <2>5. calls' \in Seq(Call) /\ Len(calls') <= MaxCalls /\ CyclesConsumed(calls') = none
      BY <1>3, <2>1, <2>2, ConsumedGrows
    <2>6. RefundAtMostSent'
      BY <2>1 DEF RefundAtMostSent
    <2>7. AddUp(b, c, cb, cc, held, u2, risked, none)
      BY <1>2, <2>2 DEF AddUp
    <2> QED
      BY <1>1, <1>3, <2>1, <2>4, <2>5, <2>6, <2>7, ContextKeeps
  <1> QED
    BY <1>4, <1>5, <1>6, <1>7, <1>8, <1>9 DEF ContextNext

LEMMA MockInvNext == MockInv /\ [MockNext]_mockVars => MockInv'
  <1> SUFFICES ASSUME MockInv, [MockNext]_mockVars PROVE MockInv'
    OBVIOUS
  <1>1. CASE UNCHANGED mockVars
    BY <1>1 DEF mockVars, MockInv, Lost, RefundAtMostSent, WatcherExplainsBalance, Unexplained
  <1> QED
    BY <1>1, BuildNextKeeps, ContextNextKeeps DEF MockNext

(***************************************************************************)
(* No pipeline makes cycles, and none get lost between the context of the  *)
(* caller and the one of a Canister handler but those of calls that        *)
(* panicked, for methods of any number of cycle operations and for         *)
(* closures that set cycles and balance.                                   *)
(***************************************************************************)
THEOREM CyclesAreConserved == MockSpec => []CyclesConserved
  <1>1. ASSUME MockInv PROVE CyclesConserved
    <2>1. PICK b \in Nat, c \in Nat, cb \in Nat, cc \in Nat, held \in Int, unwatched \in Int,
               risked \in Nat, used \in Int :
            /\ b = balance /\ c = cycles /\ cb = context.balance /\ cc = context.cycles
            /\ held = ledger.held /\ unwatched = ledger.unwatched /\ risked = ledger.risked
            /\ used = CyclesConsumed(calls)
            /\ AddUp(b, c, cb, cc, held, unwatched, risked, used)
      BY <1>1, Numbers
    <2>2. Lost = held - (b + c + cb + cc)
      BY <2>1 DEF Lost
    <2>3. 0 <= held - (b + c + cb + cc) /\ held - (b + c + cb + cc) <= risked
      <3>1. AddUp(b, c, cb, cc, held, unwatched, risked, used)
        BY <2>1
      <3> QED
        BY <3>1, AddsUp
    <2> QED
      BY <2>1, <2>2, <2>3 DEF CyclesConserved
  <1> QED
    BY <1>1, MockInvInit, MockInvNext, PTL DEF MockSpec

(***************************************************************************)
(* The cycles of the recorded calls explain the balance, but for those of  *)
(* calls that panicked, and no call is refunded more than it was sent,     *)
(* for any number of calls.                                                *)
(***************************************************************************)
THEOREM WatcherExplainsCycles == MockSpec => [](WatcherExplainsBalance /\ RefundAtMostSent)
  <1>1. MockInv => WatcherExplainsBalance /\ RefundAtMostSent
    BY DEF MockInv
  <1> QED
    BY <1>1, MockInvInit, MockInvNext, PTL DEF MockSpec


-----------------------------------------------------------------------------
(* The types of the mock context, of the calls and of the macros *)

\* Every operation of the context keeps the types of its fields.
LEMMA StateTypesNext == StateTypeOK /\ [StateNext]_stateVars => StateTypeOK'
  <1> SUFFICES ASSUME StateTypeOK, [StateNext]_stateVars PROVE StateTypeOK'
    OBVIOUS
  <1>1. ASSUME NEW t \in Types, NEW d \in Data \cup {Empty}, NEW modified \in SUBSET Types,
               NEW lent \in {"none", "held", "early"}, Storage(t, d, modified, lent)
        PROVE  StateTypeOK'
    BY <1>1 DEF Storage, Uses, StateTypeOK
  <1>2. CASE Inject
    <2>1. PICK t \in Types, d \in Data \cup {Empty}, saved \in Data \cup {Empty},
               cert \in CertBytes \cup {Empty}, from \in Callers \cup {Anonymous} :
            NewState([NoStorage EXCEPT ![t] = d],
                     IF saved = Empty THEN << >> ELSE << t, saved >>, cert, from)
      BY <1>2 DEF Inject
    <2>2. [NoStorage EXCEPT ![t] = d] \in [Types -> Data \cup {Empty}]
      BY DEF NoStorage
    <2>3. saved # Empty => << t, saved >> \in Types \X Data
      OBVIOUS
    <2>4. cert # Empty => Sign(cert) # Empty
      BY StateAssumption
    <2>5. injected' = TRUE
      BY <1>2 DEF Inject
    <2>6. NoBorrow \in [Types -> {"none", "held", "early"}]
      BY DEF NoBorrow
    <2> QED
      BY <2>1, <2>2, <2>3, <2>4, <2>5, <2>6 DEF NewState, StateTypeOK
  <1>3. CASE ClearStorage
    <2>1. NoStorage \in [Types -> Data \cup {Empty}] /\ NoBorrow \in [Types -> {"none", "held", "early"}]
      BY DEF NoStorage, NoBorrow
    <2> QED
      BY <1>3, <2>1 DEF ClearStorage, Uses, StateTypeOK
  <1>4. CASE WatchState
    BY <1>4 DEF WatchState, StateTypeOK
  <1>5. CASE Caller \/ Trap \/ CallOut \/ CallStateReset \/ StableRestore \/ DataCertificate
    BY <1>5 DEF Caller, Trap, CallOut, CallStateReset, StableRestore, DataCertificate, Uses, StateTypeOK
  <1>6. ASSUME NEW g \in Getters, Get(g) PROVE StateTypeOK'
    BY <1>6 DEF Get, Uses, StateTypeOK
  <1>7. ASSUME NEW c \in Callers, UpdateCaller(c) PROVE StateTypeOK'
    BY <1>7 DEF UpdateCaller, Uses, StateTypeOK
  <1>8. ASSUME NEW t \in Types, GetRef(t) PROVE StateTypeOK'
    <2>1. Seen(storage)[t] \in Data \cup {Empty} /\ borrowed[t] \in {"none", "held", "early"}
      BY StateAssumption DEF Seen, StateTypeOK
    <2> QED
      BY <1>1, <1>8, <2>1 DEF GetRef
  <1>9. ASSUME NEW t \in Types,
               Delete(t) \/ \E d \in Data : Store(t, d) \/ GetMut(t, d) \/ WriteBorrowed(t, d)
        PROVE  StateTypeOK'
    <2>1. borrowed[t] \in {"none", "held", "early"}
      BY DEF StateTypeOK
    <2> QED
      BY <1>1, <1>9, <2>1 DEF Delete, Store, GetMut, WriteBorrowed
  <1>10. ASSUME NEW t \in Types, NEW d \in Data, NEW encodes \in BOOLEAN, StableStore(t, d, encodes)
         PROVE  StateTypeOK'
    BY <1>10 DEF StableStore, Uses, StateTypeOK
  <1>11. ASSUME NEW data \in CertBytes, SetCertifiedData(data) PROVE StateTypeOK'
    <2>1. data # Empty /\ Sign(data) # Empty
      BY StateAssumption
    <2> QED
      BY <1>11, <2>1 DEF SetCertifiedData, Uses, StateTypeOK
  <1>12. CASE UNCHANGED stateVars
    BY <1>12 DEF stateVars, StateTypeOK
  <1> QED
    BY <1>2, <1>3, <1>4, <1>5, <1>6, <1>7, <1>8, <1>9, <1>10, <1>11, <1>12 DEF StateNext

\* A call adds one frame below the bound, and a state is made for a principal.
LEMMA CallTypesNext == CallsInv /\ CallsTypeOK /\ [CallsNext]_callVars => CallsTypeOK'
  <1> SUFFICES ASSUME CallsInv, CallsTypeOK, [CallsNext]_callVars
               PROVE  store' \subseteq Principals /\ Len(open)' <= MaxDepth
    BY CallsInvNext DEF CallsInv, CallsTypeOK
  <1>1. PICK l \in Nat : l = Len(open)
    BY DEF CallsInv
  <1>2. MaxDepth \in Nat /\ l <= MaxDepth /\ store \subseteq Principals /\ id \in Principals
    BY <1>1, CallsAssumption DEF CallsTypeOK
  <1>3. open \in Seq(Frame)
    BY DEF CallsInv
  <1>4. ASSUME NEW callee, NEW kind, NEW switches, OpenCall(callee, kind, switches)
        PROVE  store' \subseteq Principals /\ Len(open)' <= MaxDepth
    <2>1. PICK f : open' = Append(open, f)
      BY <1>4 DEF OpenCall
    <2>2. Len(Append(open, f)) = l + 1
      BY <1>1, <1>3
    <2>3. l < MaxDepth /\ store' = store
      BY <1>1, <1>4 DEF OpenCall
    <2> QED
      BY <1>2, <2>1, <2>2, <2>3
  <1>5. ASSUME NEW c \in Canisters, FromPrincipal(c) \/ CanisterCall(c) \/ CanisterNotify(c)
        PROVE  store' \subseteq Principals /\ Len(open)' <= MaxDepth
    <2>1. c \in Principals
      BY DEF Principals
    <2> QED
      BY <1>1, <1>2, <1>4, <1>5, <2>1 DEF FromPrincipal, CanisterCall, CanisterNotify
  <1>6. ASSUME NEW v \in Virtual, \/ VirtualCanisterCall(v) \/ VirtualCanisterNotify(v)
                                  \/ \E a \in {"answers", "fails"} : RegisterResponder(v, a)
        PROVE  store' \subseteq Principals /\ Len(open)' <= MaxDepth
    BY <1>1, <1>2, <1>4, <1>6 DEF VirtualCanisterCall, VirtualCanisterNotify, RegisterResponder
  <1>7. CASE Return
    <2>1. l # 0 /\ open' = SubSeq(open, 1, l - 1) /\ store' = store
      BY <1>1, <1>3, <1>7, EmptySeq DEF Return
    <2>2. Len(SubSeq(open, 1, l - 1)) = l - 1
      BY <1>1, <1>3, <2>1, SubSeqProperties
    <2> QED
      BY <1>2, <2>1, <2>2
  <1>8. CASE StateGet
    BY <1>1, <1>2, <1>8 DEF StateGet
  <1>9. CASE Panic \/ Reinject
    <2>1. open' = << >> /\ store' = store
      BY <1>9 DEF Panic, Reinject
    <2> QED
      BY <1>2, <2>1
  <1>10. CASE UNCHANGED callVars
    BY <1>1, <1>2, <1>10 DEF callVars
  <1> QED
    BY <1>5, <1>6, <1>7, <1>8, <1>9, <1>10 DEF CallsNext

\* generate_idl! adds one IDL below the bound, and a merge leaves one less.
LEMMA MacroTypesNext == MacrosInv /\ MacrosTypeOK /\ [MacrosNext]_macroVars => MacrosTypeOK'
  <1> SUFFICES ASSUME MacrosInv, MacrosTypeOK, [MacrosNext]_macroVars PROVE Len(idls)' <= MaxIdls
    BY MacrosInvNext DEF MacrosInv, MethodsInv, ExportsInv, Initials, MacrosTypeOK
  <1>1. PICK l \in Nat : l = Len(idls)
    BY DEF MacrosInv
  <1>2. MaxIdls \in Nat /\ l <= MaxIdls
    BY <1>1, MacrosAssumption DEF MacrosTypeOK
  <1>3. idls \in Seq(IdlRecord)
    BY DEF MacrosInv, IdlRecord
  <1>4. CASE UNCHANGED idls
    BY <1>1, <1>2, <1>4
  <1>5. CASE GenerateIdl
    <2>1. PICK new : idls' = Append(idls, new)
      BY <1>5 DEF GenerateIdl
    <2>2. Len(Append(idls, new)) = l + 1
      BY <1>1, <1>3
    <2>3. l < MaxIdls
      BY <1>1, <1>5 DEF GenerateIdl
    <2> QED
      BY <1>2, <2>1, <2>2, <2>3
  <1>6. CASE MergeIdls
    <2>1. PICK merged : idls' = << merged >> \o SubSeq(idls, 3, l)
      BY <1>1, <1>6 DEF MergeIdls
    <2>2. l >= 2
      BY <1>1, <1>6 DEF MergeIdls
    <2>3. PICK rest : rest = SubSeq(idls, 3, l)
      OBVIOUS
    <2>4. rest \in Seq(IdlRecord) /\ Len(rest) = l - 2
      <3>1. CASE l = 2
        BY <1>3, <2>3, <3>1, SubSeqProperties
      <3>2. CASE l > 2
        BY <1>1, <1>3, <2>3, <3>2, SubSeqProperties
      <3> QED
        BY <2>2, <3>1, <3>2
    <2>5. PICK all : rest \in Seq(all) /\ << merged >> \in Seq(all)
      <3>1. PICK all : all = IdlRecord \cup {merged}
        OBVIOUS
      <3>2. \A i \in 1 .. Len(rest) : rest[i] \in all
        BY <2>4, <3>1
      <3>3. rest \in Seq(all)
        BY <2>4, <3>2
      <3>4. << merged >> \in Seq(all)
        BY <3>1
      <3> QED
        BY <3>3, <3>4
    <2>6. Len(<< merged >> \o rest) = 1 + (l - 2)
      BY <2>4, <2>5, ConcatProperties
    <2> QED
      BY <1>2, <2>1, <2>3, <2>6
  <1>7. StateGetter => UNCHANGED idls
    BY DEF StateGetter
  <1>8. ASSUME NEW name \in ApiNames, NEW sig \in Signature, NEW args \in InitArgs,
               ApiMethod(name, sig, args)
        PROVE  UNCHANGED idls
    BY <1>8 DEF ApiMethod
  <1>9. GenerateExports \/ UNCHANGED macroVars => UNCHANGED idls
    BY DEF GenerateExports, macroVars
  <1> QED
    BY <1>4, <1>5, <1>6, <1>7, <1>8, <1>9 DEF MacrosNext

\* What is known of the handlers makes their types.
LEMMA MockTypes == MockInv => MockTypeOK
  <1> SUFFICES ASSUME MockInv PROVE MockTypeOK
    OBVIOUS
  <1>1. {balance, cycles, refunded, context.balance, context.cycles, built} \subseteq Nat
    BY DEF MockInv, Context
  <1>2. ASSUME NEW h \in Handler \cup CanisterHandler
        PROVE  IF h.kind = "canister"
               THEN /\ h.default \in Method \cup RawHandler \cup {Unset}
                    /\ \A n \in DOMAIN h.methods : h.methods[n] \in Method \cup RawHandler
               ELSE h \in Method \cup RawHandler
    BY DEF Handler, CanisterHandler, Method, RawHandler
  <1>3. \A h \in Range(handlers) \cup {canister} : h \in Handler \cup CanisterHandler
    BY DEF MockInv, Range
  <1> QED
    BY <1>1, <1>2, <1>3 DEF MockInv, MockTypeOK

-----------------------------------------------------------------------------
(* BackoffSchedule *)

\* The powers of m up to the n-th
PowersUpto(p, m, n) ==
  p \in [0 .. n -> Nat] /\ p[0] = 1 /\ \A e \in 1 .. n : p[e] = p[e - 1] * m

LEMMA PowersUptoExist ==
  ASSUME NEW m \in Nat
  PROVE  \A n \in Nat : \E p : PowersUpto(p, m, n)
  <1> DEFINE T == {n \in Nat : ~ \E p : PowersUpto(p, m, n)}
  <1> SUFFICES ASSUME T # {} PROVE FALSE
    OBVIOUS
  <1>1. T \in SUBSET Nat
    OBVIOUS
  <1>2. PICK n \in T : \A y \in T : n <= y
    <2> HIDE DEF T
    <2> QED
      BY <1>1, LeastNumber
  <1>3. n # 0
    <2>1. PICK p : p = [e \in 0 .. 0 |-> 1]
      OBVIOUS
    <2>2. PowersUpto(p, m, 0)
      BY <2>1 DEF PowersUpto
    <2> QED
      BY <2>2
  <1>4. n \in Nat /\ n - 1 \in Nat /\ n - 1 \notin T
    BY <1>2, <1>3
  <1>5. PICK p : PowersUpto(p, m, n - 1)
    BY <1>4
  <1>6. PICK q : q = [e \in 0 .. n |-> IF e = n THEN p[n - 1] * m ELSE p[e]]
    OBVIOUS
  <1>7. p \in [0 .. n - 1 -> Nat] /\ p[n - 1] \in Nat /\ p[0] = 1
        /\ \A e \in 1 .. n - 1 : p[e] = p[e - 1] * m
    BY <1>4, <1>5 DEF PowersUpto
  <1>8. p[n - 1] * m \in Nat
    BY <1>7
  <1>9. q \in [0 .. n -> Nat]
    <2>1. ASSUME NEW e \in 0 .. n, e # n PROVE p[e] \in Nat
      <3>1. e \in 0 .. n - 1
        BY <1>4, <2>1
      <3> QED
        BY <1>7, <3>1
    <2> QED
      BY <1>6, <1>8, <2>1
  <1>10. q[0] = 1
    BY <1>3, <1>4, <1>6, <1>7
  <1>11. ASSUME NEW e \in 1 .. n PROVE q[e] = q[e - 1] * m
    <2>1. e - 1 \in 0 .. n - 1 /\ e - 1 \in 0 .. n /\ e - 1 # n /\ e \in 0 .. n
      BY <1>4
    <2>2. q[e - 1] = p[e - 1]
      BY <1>6, <2>1
    <2>3. CASE e = n
      BY <1>6, <2>1, <2>2, <2>3
    <2>4. CASE e # n
      <3>1. e \in 1 .. n - 1
        BY <1>4, <2>4
      <3> QED
        BY <1>6, <1>7, <2>1, <2>2, <2>4, <3>1
    <2> QED
      BY <2>3, <2>4
  <1>12. PowersUpto(q, m, n)
    BY <1>9, <1>10, <1>11 DEF PowersUpto
  <1> QED
    BY <1>2, <1>12

LEMMA PowersAgree ==
  ASSUME NEW m \in Nat, NEW n \in Nat, NEW k \in Nat, n <= k, NEW p, NEW q,
         PowersUpto(p, m, n), PowersUpto(q, m, k)
  PROVE  p[n] = q[n]
  <1> DEFINE T == {e \in 0 .. n : p[e] # q[e]}
  <1> SUFFICES ASSUME T # {} PROVE FALSE
    OBVIOUS
  <1>1. T \in SUBSET Nat
    OBVIOUS
  <1>2. PICK e \in T : \A y \in T : e <= y
    <2> HIDE DEF T
    <2> QED
      BY <1>1, LeastNumber
  <1>3. e # 0
    BY DEF PowersUpto
  <1>4. e \in 1 .. n /\ e \in 1 .. k /\ e - 1 \in 0 .. n /\ e - 1 \notin T
    BY <1>2, <1>3
  <1>5. p[e] = p[e - 1] * m /\ q[e] = q[e - 1] * m
    BY <1>4 DEF PowersUpto
  <1>6. p[e - 1] = q[e - 1]
    BY <1>4
  <1> QED
    BY <1>5, <1>6

\* The recursion of Powers defines the powers of m.
LEMMA PowersAre ==
  ASSUME NEW m \in Nat
  PROVE  /\ Powers(m)[0] = 1
         /\ \A e \in Nat : Powers(m)[e] \in Nat /\ Powers(m)[e + 1] = Powers(m)[e] * m
  <1> DEFINE Is(h) == h = [e \in Nat |-> IF e = 0 THEN 1 ELSE h[e - 1] * m]
  <1>1. PICK up : up = [n \in Nat |-> CHOOSE p : PowersUpto(p, m, n)]
    OBVIOUS
  <1>2. \A n \in Nat : PowersUpto(up[n], m, n)
    BY <1>1, PowersUptoExist
  <1>3. PICK g : g = [n \in Nat |-> up[n][n]]
    OBVIOUS
  <1>4. g[0] = 1 /\ \A n \in Nat : g[n] \in Nat
    <2>1. ASSUME NEW n \in Nat PROVE g[n] \in Nat /\ (n = 0 => g[n] = 1)
      <3>1. PICK p : p = up[n] /\ g[n] = p[n]
        BY <1>3
      <3>2. p \in [0 .. n -> Nat] /\ p[0] = 1
        BY <1>2, <3>1 DEF PowersUpto
      <3>3. n \in 0 .. n
        OBVIOUS
      <3> QED
        BY <3>1, <3>2, <3>3
    <2> QED
      BY <2>1
  <1>5. ASSUME NEW n \in Nat PROVE g[n + 1] = g[n] * m
    <2>1. PICK k \in Nat : k = n + 1
      OBVIOUS
    <2>2. PICK p, q : p = up[n] /\ q = up[k]
      OBVIOUS
    <2>3. PowersUpto(p, m, n) /\ PowersUpto(q, m, k) /\ n <= k
      BY <1>2, <2>1, <2>2
    <2>4. p[n] = q[n]
      BY <2>3, PowersAgree
    <2>5. k \in 1 .. k /\ k - 1 = n
      BY <2>1
    <2>6. q[k] = q[n] * m
      BY <2>3, <2>5 DEF PowersUpto
    <2> QED
      BY <1>3, <2>1, <2>2, <2>4, <2>6
  <1>6. Is(g)
    <2>1. ASSUME NEW e \in Nat PROVE g[e] = IF e = 0 THEN 1 ELSE g[e - 1] * m
      <3>1. CASE e = 0
        BY <1>4, <3>1
      <3>2. CASE e # 0
        <4>1. PICK k \in Nat : k = e - 1
          BY <3>2
        <4>2. k + 1 = e
          BY <4>1
        <4> QED
          BY <1>5, <3>2, <4>1, <4>2
      <3> QED
        BY <3>1, <3>2
    <2> QED
      BY <1>3, <2>1
  <1>7. Powers(m) = CHOOSE h : Is(h)
    BY DEF Powers
  <1>8. PICK h : h = Powers(m)
    OBVIOUS
  <1>9. Is(h)
    <2> HIDE DEF Is
    <2> QED
      BY <1>6, <1>7, <1>8
  <1>10. h[0] = 1
    BY <1>9
  <1>11. ASSUME NEW n \in Nat PROVE h[n + 1] = h[n] * m
    <2>1. PICK k \in Nat : k = n + 1
      OBVIOUS
    <2>2. k # 0 /\ k - 1 = n
      BY <2>1
    <2>3. h[k] = h[k - 1] * m
      BY <1>9, <2>2
    <2> QED
      BY <2>1, <2>2, <2>3
  <1>12. ASSUME NEW n \in Nat PROVE h[n] \in Nat
    <2> HIDE DEF Is
    <2> DEFINE T == {k \in Nat : h[k] \notin Nat}
    <2> SUFFICES ASSUME T # {} PROVE FALSE
      OBVIOUS
    <2>1. T \in SUBSET Nat
      OBVIOUS
    <2>2. PICK k \in T : \A y \in T : k <= y
      <3> HIDE DEF T
      <3> QED
        BY <2>1, LeastNumber
    <2>3. k # 0 /\ k \in Nat /\ h[k] \notin Nat
      BY <1>10, <2>2
    <2>4. PICK j \in Nat : k = j + 1
      BY <2>3
    <2>5. h[j] \in Nat
      BY <2>2, <2>4
    <2>6. h[k] = h[j] * m
      BY <1>11, <2>4
    <2>7. PICK x \in Nat : x = h[j]
      BY <2>5
    <2>8. x * m \in Nat
      OBVIOUS
    <2> QED
      BY <2>3, <2>6, <2>7, <2>8
  <1> QED
    BY <1>8, <1>10, <1>11, <1>12

\* A product is not less than a factor, when the other is not zero.
LEMMA ProductGrows ==
  ASSUME NEW x \in Nat, NEW y \in Nat \ {0}
  PROVE  x * y \in Nat /\ x * y >= x /\ y * x >= x /\ y * x = x * y
  <1>1. PICK k \in Nat : y = k + 1
    OBVIOUS
  <1>2. x * k \in Nat /\ x * (k + 1) = x * k + x
    OBVIOUS
  <1>3. y * x = x * y
    OBVIOUS
  <1> QED
    BY <1>1, <1>2, <1>3

\* A product that stops at the maximum, taken once more, is the product with
\* the next power, which stops there too.
LEMMA SaturatedSteps ==
  ASSUME NEW s \in 1 .. MaxU32, NEW p \in Nat, NEW m \in Nat
  PROVE  Saturate(s * Saturate(p * m)) = Saturate(Saturate(s * Saturate(p)) * m)
  <1> DEFINE M == MaxU32
  <1>0. M \in Nat \ {0} /\ s \in Nat \ {0} /\ s <= M
    BY MaxU32Assumption
  <1>1. \A x \in Nat : Saturate(x) = IF x <= M THEN x ELSE M
    BY <1>0 DEF Saturate
  <1> HIDE DEF M
  <1>2. ASSUME NEW x \in Nat, x >= M PROVE Saturate(x) = M
    BY <1>0, <1>1, <1>2
  <1>3. ASSUME NEW x \in Nat, x <= M PROVE Saturate(x) = x
    BY <1>0, <1>1, <1>3
  <1>4. s * M \in Nat /\ s * M >= M
    BY <1>0, ProductGrows
  <1>5. CASE m = 0
    <2>1. \A x \in Nat : x * m = 0
      BY <1>5
    <2>2. Saturate(p) \in Nat /\ Saturate(0) = 0
      BY <1>0, <1>1
    <2>3. PICK x \in Nat : x = s * Saturate(p)
      BY <1>0, <2>2
    <2>4. Saturate(x) \in Nat
      BY <1>0, <1>1
    <2>5. p * m = 0 /\ Saturate(x) * m = 0
      BY <2>1, <2>4
    <2>6. s * Saturate(p * m) = 0
      BY <1>0, <2>2, <2>5
    <2> QED
      BY <2>2, <2>3, <2>5, <2>6
  <1>6. CASE m # 0 /\ p >= M
    <2>1. p * m \in Nat /\ p * m >= M
      <3>1. p * m \in Nat /\ p * m >= p
        BY <1>6, ProductGrows
      <3> QED
        BY <1>0, <1>6, <3>1
    <2>2. Saturate(p * m) = M /\ Saturate(p) = M
      BY <1>2, <1>6, <2>1
    <2>3. Saturate(s * M) = M
      BY <1>2, <1>4
    <2>4. M * m \in Nat /\ M * m >= M
      BY <1>0, <1>6, ProductGrows
    <2>5. Saturate(M * m) = M
      BY <1>2, <2>4
    <2> QED
      BY <2>2, <2>3, <2>5
  <1>7. CASE m # 0 /\ p < M
    <2>0. PICK a \in Nat, b \in Nat, c \in Nat : a = s * p /\ b = p * m /\ c = s * b
      BY <1>0
    <2>1. Saturate(p) = p
      BY <1>0, <1>3, <1>7
    <2>2. a * m = c
      <3>1. (s * p) * m = s * (p * m)
        BY <1>0
      <3> QED
        BY <2>0, <3>1
    <2>3. c >= a
      <3>1. a * m >= a
        BY <1>7, ProductGrows
      <3> QED
        BY <2>2, <3>1
    <2>4. c >= b
      BY <1>0, <2>0, ProductGrows
    <2>5. CASE b >= M
      <3>1. Saturate(s * Saturate(b)) = M
        BY <1>2, <1>4, <2>5
      <3>2. Saturate(Saturate(a) * m) = M
        <4>1. CASE a >= M
          <5>1. Saturate(a) = M
            BY <1>2, <4>1
          <5>2. M * m \in Nat /\ M * m >= M
            BY <1>0, <1>7, ProductGrows
          <5> QED
            BY <1>2, <5>1, <5>2
        <4>2. CASE a < M
          <5>1. Saturate(a) = a /\ c >= M
            BY <1>0, <1>3, <2>4, <2>5, <4>2
          <5> QED
            BY <1>2, <2>2, <5>1
        <4> QED
          BY <1>0, <4>1, <4>2
      <3> QED
        BY <2>0, <2>1, <3>1, <3>2
    <2>6. CASE b < M
      <3>1. Saturate(s * Saturate(b)) = Saturate(c)
        BY <1>0, <1>3, <2>0, <2>6
      <3>2. Saturate(Saturate(a) * m) = Saturate(c)
        <4>1. CASE a >= M
          <5>1. Saturate(a) = M /\ Saturate(c) = M
            BY <1>0, <1>2, <2>3, <4>1
          <5>2. M * m \in Nat /\ M * m >= M
            BY <1>0, <1>7, ProductGrows
          <5> QED
            BY <1>2, <5>1, <5>2
        <4>2. CASE a < M
          BY <1>0, <1>3, <2>2, <4>2
        <4> QED
          BY <1>0, <4>1, <4>2
      <3> QED
        BY <2>0, <2>1, <3>1, <3>2
    <2> QED
      BY <1>0, <2>5, <2>6
  <1> QED
    BY <1>0, <1>5, <1>6, <1>7

\* The delay after one more failure follows from the delay before.
LEMMA DelaySteps ==
  ASSUME NEW b \in BackoffPolicy, NEW n \in Nat
  PROVE  ShouldWait(b, n + 1) = ReferenceDelay(b, n + 1, ShouldWait(b, n))
  <1>0. PICK k \in Nat \ {0} : k = n + 1
    OBVIOUS
  <1>1. /\ b.kind \in {"None", "Fixed", "Variable", "Exponential"}
        /\ b.secs \in Seq(0 .. MaxU32) /\ b.multiplier \in 0 .. MaxU32
        /\ b.kind \in {"Fixed", "Exponential"} => Len(b.secs) = 1
    BY DEF BackoffPolicy
  <1>2. CASE b.kind = "None"
    BY <1>0, <1>2 DEF ShouldWait, ReferenceDelay
  <1>3. CASE b.kind = "Fixed"
    BY <1>0, <1>3 DEF ShouldWait, ReferenceDelay
  <1>4. CASE b.kind = "Variable"
    <2>1. b.secs = << >> <=> Len(b.secs) = 0
      BY <1>1, EmptySeq
    <2>2. \A last : ReferenceDelay(b, k, last) =
            IF b.secs = << >> THEN 0 ELSE b.secs[IF k <= Len(b.secs) THEN k ELSE Len(b.secs)]
      BY <1>4 DEF ReferenceDelay
    <2>3. ShouldWait(b, k) =
            IF Len(b.secs) = 0 THEN 0 ELSE b.secs[IF k <= Len(b.secs) THEN k ELSE Len(b.secs)]
      BY <1>0, <1>4 DEF ShouldWait
    <2> QED
      BY <1>0, <2>1, <2>2, <2>3
  <1>5. CASE b.kind = "Exponential"
    <2>1. PICK s \in 0 .. MaxU32, m \in 0 .. MaxU32 : s = b.secs[1] /\ m = b.multiplier
      <3>0. PICK u32 : u32 = 0 .. MaxU32
        OBVIOUS
      <3>1. PICK secs \in Seq(u32) : secs = b.secs /\ Len(secs) = 1
        BY <1>1, <1>5, <3>0
      <3>2. secs[1] \in u32
        BY <3>1, ElementOfSeq
      <3> QED
        BY <1>1, <3>0, <3>1, <3>2
    <2>2. MaxU32 \in Nat /\ m \in Nat /\ s \in Nat
      BY <2>1, MaxU32Assumption
    <2>3. ASSUME NEW x \in Nat \ {0}
          PROVE  ShouldWait(b, x) = IF s = 0 THEN 0 ELSE Saturate(s * Saturate(Powers(m)[x - 1]))
      <3>1. ~ (x = 0 \/ b.kind = "None") /\ b.kind # "Fixed" /\ b.kind # "Variable"
        BY <1>5
      <3>2. ShouldWait(b, x) =
              IF b.secs[1] = 0 THEN 0 ELSE Saturate(b.secs[1] * SaturatingPow(b.multiplier, x - 1))
        BY <3>1 DEF ShouldWait
      <3> QED
        BY <2>1, <3>2 DEF SaturatingPow
    <2>4. \A last : ReferenceDelay(b, k, last) =
            IF k = 1 THEN s ELSE IF MaxU32 <= last * m THEN MaxU32 ELSE last * m
      BY <1>5, <2>1 DEF ReferenceDelay
    <2>5. \A x \in Nat : Saturate(x) \in Nat /\ Saturate(x) = IF MaxU32 <= x THEN MaxU32 ELSE x
      BY <2>2 DEF Saturate
    <2>6. CASE k = 1
      <3>1. Powers(m)[k - 1] = 1
        BY <2>2, <2>6, PowersAre
      <3>2. s # 0 => Saturate(1) = 1 /\ s * 1 = s /\ Saturate(s) = s
        BY <2>1, <2>2, <2>5
      <3>3. ShouldWait(b, k) = s
        BY <2>3, <3>1, <3>2
      <3> QED
        BY <1>0, <2>4, <2>6, <3>3
    <2>7. CASE k # 1
      <3>1. PICK e \in Nat : e = n - 1 /\ n \in Nat \ {0} /\ e + 1 = k - 1
        BY <1>0, <2>7
      <3>2. PICK p \in Nat : p = Powers(m)[e] /\ Powers(m)[e + 1] = p * m
        BY <2>2, PowersAre
      <3>3. CASE s = 0
        <4>1. ShouldWait(b, n) = 0 /\ ShouldWait(b, k) = 0
          BY <2>3, <3>1, <3>3
        <4>2. 0 * m = 0
          BY <2>2
        <4> QED
          BY <1>0, <2>2, <2>4, <2>7, <4>1, <4>2
      <3>4. CASE s # 0
        <4>1. PICK d \in Nat : d = Saturate(s * Saturate(p))
          BY <2>2, <2>5
        <4>2. ShouldWait(b, n) = d /\ ShouldWait(b, k) = Saturate(s * Saturate(p * m))
          BY <2>3, <3>1, <3>2, <3>4, <4>1
        <4>3. s \in 1 .. MaxU32
          BY <2>1, <2>2, <3>4
        <4>4. Saturate(s * Saturate(p * m)) = Saturate(d * m)
          BY <2>2, <4>1, <4>3, SaturatedSteps
        <4>5. d * m \in Nat
          BY <2>2
        <4>6. Saturate(d * m) = IF MaxU32 <= d * m THEN MaxU32 ELSE d * m
          BY <2>5, <4>5
        <4> QED
          BY <1>0, <2>4, <2>7, <4>2, <4>4, <4>6
      <3> QED
        BY <3>3, <3>4
    <2> QED
      BY <2>6, <2>7
  <1> QED
    BY <1>1, <1>2, <1>3, <1>4, <1>5

\* Before the first failure nothing is waited for.
LEMMA BackoffInvInit == BackoffInit => BackoffInv
  <1> SUFFICES ASSUME BackoffInit PROVE BackoffInv
    OBVIOUS
  <1>1. /\ strategy \in [retry_policy : Policies, backoff_policy : Backoffs]
        /\ failed = 0 /\ retries = 0 /\ delay = 0 /\ reference = 0
    BY DEF BackoffInit
  <1>2. strategy \in RetryStrategy /\ strategy.retry_policy \in RetryPolicy
    BY <1>1, StrategiesAssumption DEF RetryStrategy
  <1>3. strategy.retry_policy.arg \in Nat
    BY <1>2 DEF RetryPolicy
  <1>4. ScheduleAsDocumented
    BY <1>1, <1>3 DEF ScheduleAsDocumented
  <1>5. ShouldWait(strategy.backoff_policy, 0) = 0
    BY DEF ShouldWait
  <1> QED
    BY <1>1, <1>2, <1>4, <1>5 DEF BackoffInv

\* A failure is answered as the policy says, and with the next delay.
LEMMA BackoffInvNext == BackoffInv /\ [BackoffNext]_backoffVars => BackoffInv'
  <1> SUFFICES ASSUME BackoffInv, [BackoffNext]_backoffVars PROVE BackoffInv'
    OBVIOUS
  <1>1. CASE UNCHANGED backoffVars
    BY <1>1 DEF backoffVars, BackoffInv, ScheduleAsDocumented
  <1>2. CASE Fail
    <2>1. PICK policy \in RetryPolicy, b \in BackoffPolicy, n \in Nat :
            policy = strategy.retry_policy /\ b = strategy.backoff_policy /\ n = failed
      BY DEF BackoffInv, RetryStrategy
    <2>2. PICK again \in BOOLEAN : again <=> ShouldRetryPolicy(policy, n + 1, n + 1)
      OBVIOUS
    <2>3. /\ retries = n /\ failed' = n + 1 /\ strategy' = strategy
          /\ retries' = (IF again THEN n + 1 ELSE n)
          /\ delay' = ShouldWait(b, n + 1)
          /\ reference' = ReferenceDelay(b, n + 1, reference)
      BY <1>2, <2>1, <2>2 DEF Fail, ShouldRetry
    <2>4. reference = ShouldWait(b, n)
      BY <2>1 DEF BackoffInv
    <2>5. reference' = ShouldWait(b, n + 1) /\ delay' = reference'
      BY <2>3, <2>4, DelaySteps
    <2>6. PICK arg \in Nat : arg = policy.arg
      BY DEF RetryPolicy
    <2>7. again <=> \/ policy.kind = "Infinite"
                    \/ policy.kind = "MaxRetries" /\ arg >= n + 1
                    \/ policy.kind = "Timeout" /\ n + 1 <= arg
      BY <2>2, <2>6 DEF ShouldRetryPolicy
    <2>8. /\ policy.kind = "None" => n = 0
          /\ policy.kind \in {"MaxRetries", "Timeout"} => n = IF n <= arg THEN n ELSE arg
      BY <2>1, <2>3, <2>6 DEF BackoffInv, ScheduleAsDocumented
    <2>9. policy.kind = "None" => retries' = 0
      BY <2>3, <2>7, <2>8
    <2>10. policy.kind \in {"MaxRetries", "Timeout"} =>
             retries' = IF n + 1 <= arg THEN n + 1 ELSE arg
      BY <2>3, <2>7, <2>8
    <2>11. policy.kind = "Infinite" => retries' = n + 1
      BY <2>3, <2>7
    <2>12. ScheduleAsDocumented'
      BY <2>1, <2>3, <2>5, <2>6, <2>9, <2>10, <2>11 DEF ScheduleAsDocumented
    <2>13. retries' \in Nat /\ failed' \in Nat
      BY <2>3
    <2> QED
      BY <2>1, <2>3, <2>5, <2>12, <2>13 DEF BackoffInv
  <1> QED
    BY <1>1, <1>2 DEF BackoffNext

-----------------------------------------------------------------------------
(* Tokens *)

\* The recursion of PowersOf defines the powers of m.
LEMMA PowersOfAre ==
  ASSUME NEW m \in Nat, NEW n \in Nat
  PROVE  PowersUpto(PowersOf(m, n), m, n)
  <1> DEFINE Is(h) == h = [e \in 0 .. n |-> IF e = 0 THEN 1 ELSE h[e - 1] * m]
  <1>1. PICK p : PowersUpto(p, m, n)
    BY PowersUptoExist
  <1>2. Is(p)
    <2>1. p \in [0 .. n -> Nat] /\ \A e \in 0 .. n : p[e] = IF e = 0 THEN 1 ELSE p[e - 1] * m
      BY <1>1 DEF PowersUpto
    <2> QED
      BY <2>1
  <1>3. PICK h : h = CHOOSE g : Is(g)
    OBVIOUS
  <1>4. PowersOf(m, n) = [k \in 0 .. n |-> h[k]]
    BY <1>3 DEF PowersOf
  <1>5. Is(h)
    <2> HIDE DEF Is
    <2> QED
      BY <1>2, <1>3
  <1>6. \A e \in 0 .. n : h[e] = p[e]
    <2> DEFINE T == {e \in 0 .. n : h[e] # p[e]}
    <2> SUFFICES ASSUME T # {} PROVE FALSE
      OBVIOUS
    <2>1. T \in SUBSET Nat
      OBVIOUS
    <2>2. PICK e \in T : \A y \in T : e <= y
      <3> HIDE DEF T
      <3> QED
        BY <2>1, LeastNumber
    <2>3. e \in 0 .. n /\ h[e] # p[e]
      BY <2>2
    <2>4. e # 0
      BY <1>2, <1>5, <2>3
    <2>5. e - 1 \in 0 .. n /\ e - 1 \notin T
      BY <2>2, <2>3, <2>4
    <2>6. h[e - 1] = p[e - 1]
      BY <2>5
    <2>7. h[e] = h[e - 1] * m /\ p[e] = p[e - 1] * m
      BY <1>2, <1>5, <2>3, <2>4
    <2> QED
      BY <2>3, <2>6, <2>7
  <1>7. PowersOf(m, n) = p
    BY <1>1, <1>4, <1>6 DEF PowersUpto
  <1> QED
    BY <1>1, <1>7

\* What the bytes are worth.
LEMMA WeightsAre ==
  /\ Byte \in Nat /\ Byte >= 2
  /\ Weight \in [0 .. 8 -> Nat]
  /\ Weight[0] = 1 /\ Weight[1] = Byte /\ Weight[2] = Byte * Byte
  /\ Weight[3] = Weight[2] * Byte /\ Weight[4] = Weight[3] * Byte /\ Weight[5] = Weight[4] * Byte
  <1>1. Byte \in Nat /\ Byte >= 2
    BY TokensAssumption
  <1>2. PICK m \in Nat, n \in Nat : m = Byte /\ n = 8
    BY <1>1
  <1>3. PowersUpto(PowersOf(m, n), m, n)
    BY PowersOfAre
  <1>4. PICK w : w = PowersOf(m, n)
    OBVIOUS
  <1>5. Weight = w
    BY <1>2, <1>4 DEF Weight, BYTE_LENGTH256
  <1>6. w \in [0 .. 8 -> Nat] /\ w[0] = 1 /\ \A e \in 1 .. 8 : w[e] = w[e - 1] * Byte
    BY <1>2, <1>3, <1>4 DEF PowersUpto
  <1>7. w[1] = w[0] * Byte /\ w[2] = w[1] * Byte /\ w[3] = w[2] * Byte /\ w[4] = w[3] * Byte
        /\ w[5] = w[4] * Byte
    BY <1>6
  <1>8. w[0] * Byte = Byte
    BY <1>1, <1>6
  <1> QED
    BY <1>1, <1>5, <1>6, <1>7, <1>8

\* A quotient and a remainder, and what they add up to.
LEMMA DivisionIs ==
  ASSUME NEW x \in Nat, NEW c \in Nat \ {0}
  PROVE  \E q \in Nat, r \in Nat : q = x \div c /\ r = x % c /\ r < c /\ x = c * q + r
  <1>1. PICK q \in Int, r \in 0 .. c - 1 : q = x \div c /\ r = x % c /\ x = c * q + r
    BY Z3
  <1>2. ASSUME q <= -1 PROVE FALSE
    <2>1. c * q <= -c
      BY <1>2, Z3
    <2>2. c * q \in Int
      OBVIOUS
    <2> QED
      BY <1>1, <2>1, <2>2
  <1>3. q >= 0
    BY <1>2
  <1>4. q \in Nat /\ r \in Nat /\ r < c
    BY <1>3
  <1> QED
    BY <1>1, <1>4

\* There is only one quotient and one remainder.
LEMMA DivisionUnique ==
  ASSUME NEW q \in Nat, NEW c \in Nat \ {0}, NEW r \in Nat, r < c, NEW x \in Nat, x = c * q + r
  PROVE  x \div c = q /\ x % c = r
  <1>1. PICK d \in Nat, s \in Nat : d = x \div c /\ s = x % c /\ s < c /\ x = c * d + s
    BY DivisionIs
  <1>2. ASSUME d <= q - 1 PROVE FALSE
    <2>1. c * d <= c * (q - 1)
      BY <1>2, Z3
    <2>2. c * (q - 1) = c * q - c
      BY Z3
    <2>3. c * d \in Int /\ c * q \in Int /\ c * (q - 1) \in Int
      OBVIOUS
    <2> QED
      BY <1>1, <2>1, <2>2, <2>3
  <1>3. ASSUME d >= q + 1 PROVE FALSE
    <2>1. c * d >= c * (q + 1)
      BY <1>3, Z3
    <2>2. c * (q + 1) = c * q + c
      BY Z3
    <2>3. c * d \in Int /\ c * q \in Int /\ c * (q + 1) \in Int
      OBVIOUS
    <2> QED
      BY <1>1, <2>1, <2>2, <2>3
  <1>4. d = q
    BY <1>2, <1>3
  <1>5. c * d \in Int
    OBVIOUS
  <1>6. s = r
    BY <1>1, <1>4, <1>5
  <1> QED
    BY <1>1, <1>4, <1>6


\* Dividing twice is dividing by the product.
LEMMA DivisionNested ==
  ASSUME NEW x \in Nat, NEW a \in Nat \ {0}, NEW b \in Nat \ {0}
  PROVE  (x \div a) \div b = x \div (a * b)
  <1>1. PICK q \in Nat, r \in Nat : q = x \div a /\ r = x % a /\ r < a /\ x = a * q + r
    BY DivisionIs
  <1>2. PICK p \in Nat, s \in Nat : p = q \div b /\ s = q % b /\ s < b /\ q = b * p + s
    BY DivisionIs
  <1>3. a * (b * p + s) = (a * b) * p + a * s
    BY Z3
  <1>4. a * s + a <= a * b
    <2>1. PICK k \in Nat : b = s + 1 + k
      <3>1. b - s - 1 \in Nat /\ b = s + 1 + (b - s - 1)
        BY <1>2
      <3> QED
        BY <3>1
    <2>2. a * (s + 1 + k) = a * s + a + a * k /\ a * k \in Nat /\ a * s \in Nat
      OBVIOUS
    <2> QED
      BY <2>1, <2>2
  <1>5. PICK c \in Nat \ {0} : c = a * b
    <2>1. a * b \in Nat /\ a * b >= a
      BY ProductGrows
    <2> QED
      BY <2>1
  <1>6. PICK t \in Nat : t = a * s
    OBVIOUS
  <1>7. t + r \in Nat /\ t + r < c
    BY <1>1, <1>4, <1>5, <1>6
  <1>8. PICK u \in Nat : u = t + r
    BY <1>7
  <1>9. c * p \in Int /\ x = c * p + u
    <2>1. PICK v \in Nat : v = a * q
      OBVIOUS
    <2>2. PICK w \in Nat : w = (a * b) * p
      OBVIOUS
    <2>3. v = w + t
      BY <1>2, <1>3, <1>6, <2>1, <2>2
    <2>4. x = w + u
      BY <1>1, <1>8, <2>1, <2>3
    <2> QED
      BY <1>5, <2>2, <2>4
  <1>10. x \div c = p
    BY <1>7, <1>8, <1>9, DivisionUnique
  <1> QED
    BY <1>1, <1>2, <1>5, <1>10

\* The sum over at most four numbers
Part(f, i, s) == IF i \in s THEN f[i] ELSE 0
PartSum(f, s) == Part(f, 1, s) + Part(f, 2, s) + Part(f, 3, s) + Part(f, 4, s)

Summing(h, f, S) ==
  h = [s \in SUBSET S |-> IF s = {} THEN 0 ELSE f[Member(s)] + h[s \ {Member(s)}]]

LEMMA SumUptoFour ==
  ASSUME NEW S \in SUBSET (1 .. 4), NEW f \in [1 .. 4 -> Nat], NEW h, Summing(h, f, S)
  PROVE  h[S] = PartSum(f, S)
  <1> DEFINE T == {s \in SUBSET S : h[s] # PartSum(f, s)}
  <1> SUFFICES ASSUME T # {} PROVE FALSE
    OBVIOUS
  <1>1. IsFiniteSet(S)
    <2>1. PICK a \in Int, b \in Int : a = 1 /\ b = 4
      OBVIOUS
    <2>2. IsFiniteSet(a .. b)
      BY FS_Interval
    <2>3. IsFiniteSet(1 .. 4)
      BY <2>1, <2>2
    <2> QED
      BY <2>3, FS_Subset
  <1>2. PICK s \in T : \A x \in s : s \ {x} \notin T
    <2>1. T \in SUBSET (SUBSET S)
      OBVIOUS
    <2> HIDE DEF T
    <2> QED
      BY <1>1, <2>1, LeastSubset
  <1>3. s \in SUBSET S /\ h[s] # PartSum(f, s)
    BY <1>2
  <1>4. s # {}
    <2>1. PartSum(f, {}) = 0
      BY DEF PartSum, Part
    <2>2. h[{}] = 0
      BY DEF Summing
    <2> QED
      BY <1>3, <2>1, <2>2
  <1>5. PICK x \in s : x = Member(s)
    BY <1>4 DEF Member
  <1>6. PICK rest \in SUBSET S : rest = s \ {x}
    BY <1>3
  <1>7. h[rest] = PartSum(f, rest)
    BY <1>2, <1>6
  <1>8. h[s] = f[x] + h[rest]
    BY <1>3, <1>4, <1>5, <1>6 DEF Summing
  <1>9. x \in {1, 2, 3, 4}
    <2>1. x \in 1 .. 4
      BY <1>3, <1>5
    <2> QED
      BY <2>1
  <1>10. f[1] \in Nat /\ f[2] \in Nat /\ f[3] \in Nat /\ f[4] \in Nat
    OBVIOUS
  <1>11. \A i \in 1 .. 4 : i # x => Part(f, i, s) = Part(f, i, rest)
    BY <1>6 DEF Part
  <1>12. Part(f, x, s) = f[x] /\ Part(f, x, rest) = 0
    BY <1>5, <1>6 DEF Part
  <1>13. \A i \in 1 .. 4 : Part(f, i, s) \in Nat /\ Part(f, i, rest) \in Nat
    BY DEF Part
  <1>14. PartSum(f, s) = f[x] + PartSum(f, rest)
    BY <1>9, <1>10, <1>11, <1>12, <1>13 DEF PartSum
  <1> QED
    BY <1>3, <1>7, <1>8, <1>14

\* The numbers behind two and behind four bytes
LEMMA FromLeBytesIs ==
  ASSUME NEW L \in {2, 4}, NEW bytes \in [1 .. L -> Nat]
  PROVE  /\ L = 2 => FromLeBytes(bytes) = bytes[1] + bytes[2] * Weight[1]
         /\ L = 4 => FromLeBytes(bytes) = bytes[1] + bytes[2] * Weight[1] + bytes[3] * Weight[2]
                                          + bytes[4] * Weight[3]
  <1> DEFINE S == DOMAIN bytes
             Is(g) == g = [s \in SUBSET S |->
                             IF s = {} THEN 0
                             ELSE bytes[Member(s)] * Weight[Member(s) - 1] + g[s \ {Member(s)}]]
  <1>1. PICK f : f = [i \in 1 .. 4 |-> IF i <= L THEN bytes[i] * Weight[i - 1] ELSE 0]
    OBVIOUS
  <1>2. ASSUME NEW i \in 1 .. L PROVE bytes[i] * Weight[i - 1] \in Nat /\ i \in 1 .. 4 /\ f[i] = bytes[i] * Weight[i - 1]
    <2>1. i \in 1 .. 4 /\ i - 1 \in 0 .. 8
      OBVIOUS
    <2>2. PICK a \in Nat, b \in Nat : a = bytes[i] /\ b = Weight[i - 1]
      BY <2>1, WeightsAre
    <2>3. a * b \in Nat
      OBVIOUS
    <2> QED
      BY <1>1, <2>1, <2>2, <2>3
  <1>3. f \in [1 .. 4 -> Nat]
    <2>1. ASSUME NEW i \in 1 .. 4 PROVE f[i] \in Nat
      <3>1. CASE i <= L
        <4>1. i \in 1 .. L
          BY <3>1
        <4> QED
          BY <1>2, <4>1
      <3>2. CASE ~ (i <= L)
        BY <1>1, <3>2
      <3> QED
        BY <3>1, <3>2
    <2> QED
      BY <1>1, <2>1
  <1>4. S = 1 .. L /\ S \in SUBSET (1 .. 4)
    OBVIOUS
  <1>5. PICK h : h = CHOOSE g : Is(g)
    OBVIOUS
  <1>6. FromLeBytes(bytes) = h[S]
    BY <1>5 DEF FromLeBytes, MapThenSumSet, MapThenFoldSet, Member
  <1>7. \A s \in SUBSET S : s # {} => Member(s) \in s
    BY DEF Member
  <1>8. \A s \in SUBSET S : s # {} => bytes[Member(s)] * Weight[Member(s) - 1] = f[Member(s)]
    BY <1>2, <1>4, <1>7
  <1>9. \A g : Is(g) <=> Summing(g, f, S)
    BY <1>8 DEF Summing
  <1>10. \E g : Is(g)
    <2>1. IsFiniteSet(S)
      BY <1>4, FS_Interval
    <2>2. PICK e \in [S -> Nat] : \A i \in S : e[i] = f[i]
      <3>1. [i \in S |-> f[i]] \in [S -> Nat]
        BY <1>3, <1>4
      <3> QED
        BY <3>1
    <2>3. PICK g : SumsOf(g, e, S)
      BY <2>1, SumsExist
    <2>4. Summing(g, f, S)
      BY <1>7, <2>2, <2>3 DEF SumsOf, Summing
    <2> QED
      BY <1>9, <2>4
  <1>11. Is(h)
    <2> HIDE DEF Is
    <2> QED
      BY <1>5, <1>10
  <1>12. h[S] = PartSum(f, S)
    <2>1. Summing(h, f, S)
      BY <1>9, <1>11
    <2> HIDE DEF S
    <2> QED
      BY <1>3, <1>4, <2>1, SumUptoFour
  <1>13. f[1] = bytes[1] /\ f[2] = bytes[2] * Weight[1] /\ f[1] \in Nat /\ f[2] \in Nat
    <2>1. 1 \in 1 .. L /\ 2 \in 1 .. L
      OBVIOUS
    <2>2. PICK b \in Nat : b = bytes[1]
      BY <2>1
    <2>3. b * 1 = b
      OBVIOUS
    <2>4. f[1] = bytes[1] * Weight[1 - 1] /\ f[2] = bytes[2] * Weight[2 - 1]
      BY <1>2, <2>1
    <2>5. Weight[1 - 1] = 1 /\ Weight[2 - 1] = Weight[1]
      BY WeightsAre
    <2>6. f[1] = b
      BY <2>2, <2>3, <2>4, <2>5
    <2> QED
      BY <1>3, <2>2, <2>4, <2>5, <2>6
  <1>14. CASE L = 2
    <2>1. PartSum(f, S) = f[1] + f[2]
      BY <1>4, <1>13, <1>14 DEF PartSum, Part
    <2> QED
      BY <1>6, <1>12, <1>13, <1>14, <2>1
  <1>15. CASE L = 4
    <2>1. f[3] = bytes[3] * Weight[2] /\ f[4] = bytes[4] * Weight[3]
      BY <1>2, <1>15
    <2>2. PartSum(f, S) = f[1] + f[2] + f[3] + f[4]
      BY <1>4, <1>15 DEF PartSum, Part
    <2> QED
      BY <1>6, <1>12, <1>13, <1>15, <2>1, <2>2
  <1> QED
    BY <1>14, <1>15


\* A larger weight
LEMMA WeightsGrow ==
  /\ \A k \in 0 .. 5 : Weight[k] \in Nat \ {0}
  /\ \A k \in 0 .. 4 : 2 * Weight[k] <= Weight[k + 1]
  /\ \A k \in 0 .. 5, j \in 0 .. 5 : k <= j => Weight[k] <= Weight[j]
  <1>1. ASSUME NEW x \in Nat \ {0} PROVE 2 * x <= x * Byte /\ x * Byte \in Nat
    <2>1. PICK k \in Nat : Byte = 2 + k
      <3>1. Byte - 2 \in Nat /\ Byte = 2 + (Byte - 2)
        BY WeightsAre
      <3> QED
        BY <3>1
    <2>2. x * (2 + k) = 2 * x + x * k /\ x * k \in Nat
      OBVIOUS
    <2> QED
      BY <2>1, <2>2
  <1>2. PICK w0, w1, w2, w3, w4, w5 : /\ w0 = Weight[0] /\ w1 = Weight[1] /\ w2 = Weight[2]
                                      /\ w3 = Weight[3] /\ w4 = Weight[4] /\ w5 = Weight[5]
    OBVIOUS
  <1>3. w0 = 1 /\ w1 = Byte /\ w1 \in Nat /\ w1 >= 2
    BY <1>2, WeightsAre
  <1>4. w2 \in Nat /\ 2 * w1 <= w2
    BY <1>1, <1>2, <1>3, WeightsAre
  <1>5. w3 \in Nat /\ 2 * w2 <= w3
    BY <1>1, <1>2, <1>3, <1>4, WeightsAre
  <1>6. w4 \in Nat /\ 2 * w3 <= w4
    BY <1>1, <1>2, <1>3, <1>4, <1>5, WeightsAre
  <1>7. w5 \in Nat /\ 2 * w4 <= w5
    BY <1>1, <1>2, <1>3, <1>4, <1>5, <1>6, WeightsAre
  <1>8. w0 <= w1 /\ w1 <= w2 /\ w2 <= w3 /\ w3 <= w4 /\ w4 <= w5 /\ 2 * w0 <= w1 /\ w0 \in Nat
    BY <1>3, <1>4, <1>5, <1>6, <1>7
  <1>9. \A k \in 0 .. 5 : Weight[k] \in Nat \ {0}
    <2> SUFFICES ASSUME NEW k \in 0 .. 5 PROVE Weight[k] \in Nat \ {0}
      OBVIOUS
    <2>1. k = 0 \/ k = 1 \/ k = 2 \/ k = 3 \/ k = 4 \/ k = 5
      OBVIOUS
    <2>2. /\ w0 \in Nat \ {0} /\ w1 \in Nat \ {0} /\ w2 \in Nat \ {0}
          /\ w3 \in Nat \ {0} /\ w4 \in Nat \ {0} /\ w5 \in Nat \ {0}
      BY <1>3, <1>4, <1>5, <1>6, <1>7
    <2> QED
      BY <1>2, <2>1, <2>2
  <1>10. \A k \in 0 .. 4 : 2 * Weight[k] <= Weight[k + 1]
    <2> SUFFICES ASSUME NEW k \in 0 .. 4 PROVE 2 * Weight[k] <= Weight[k + 1]
      OBVIOUS
    <2>1. k = 0 \/ k = 1 \/ k = 2 \/ k = 3 \/ k = 4
      OBVIOUS
    <2> QED
      BY <1>2, <1>4, <1>5, <1>6, <1>7, <1>8, <2>1
  <1>11. ASSUME NEW k \in 0 .. 5, NEW j \in 0 .. 5, k <= j PROVE Weight[k] <= Weight[j]
    <2>1. /\ w1 <= w3 /\ w1 <= w4 /\ w1 <= w5 /\ w2 <= w4 /\ w2 <= w5 /\ w3 <= w5
          /\ w0 <= w2 /\ w0 <= w3 /\ w0 <= w4 /\ w0 <= w5
          /\ w0 <= w0 /\ w1 <= w1 /\ w2 <= w2 /\ w3 <= w3 /\ w4 <= w4 /\ w5 <= w5
      BY <1>3, <1>4, <1>5, <1>6, <1>7, <1>8
    <2>2. k = 0 \/ k = 1 \/ k = 2 \/ k = 3 \/ k = 4 \/ k = 5
      OBVIOUS
    <2>3. j = 0 \/ j = 1 \/ j = 2 \/ j = 3 \/ j = 4 \/ j = 5
      OBVIOUS
    <2> QED
      BY <1>2, <1>8, <1>11, <2>1, <2>2, <2>3
  <1> QED
    BY <1>9, <1>10, <1>11

Digit(n, i) == (n \div Weight[i - 1]) % Byte

\* A number in the digits of its bytes
InDigits(n, d1, d2, d3, d4, q2, q4) ==
  /\ d1 = Digit(n, 1) /\ d2 = Digit(n, 2) /\ d3 = Digit(n, 3) /\ d4 = Digit(n, 4)
  /\ n = d1 + d2 * Weight[1] + q2 * Weight[2]
  /\ n = d1 + d2 * Weight[1] + d3 * Weight[2] + d4 * Weight[3] + q4 * Weight[4]
  /\ d1 + d2 * Weight[1] < Weight[2]
  /\ q2 = 0 <=> d3 = 0 /\ d4 = 0 /\ q4 = 0
  /\ n < Weight[2] <=> q2 = 0
  /\ n < Weight[4] <=> q4 = 0
  /\ q2 = n \div Weight[2]

LEMMA Digits ==
  ASSUME NEW n \in Nat
  PROVE  \E d1 \in 0 .. Byte - 1, d2 \in 0 .. Byte - 1, d3 \in 0 .. Byte - 1, d4 \in 0 .. Byte - 1,
            q2 \in Nat, q4 \in Nat : InDigits(n, d1, d2, d3, d4, q2, q4)
  <1>1. PICK b \in Nat : b = Byte /\ b >= 2 /\ b # 0
    BY WeightsAre
  <1>2. PICK w2 \in Nat \ {0}, w3 \in Nat \ {0}, w4 \in Nat \ {0} :
          w2 = Weight[2] /\ w3 = Weight[3] /\ w4 = Weight[4]
    BY WeightsGrow
  <1>3. w2 = b * b /\ w3 = w2 * b /\ w4 = w3 * b /\ Weight[1] = b /\ Weight[0] = 1
    BY <1>1, <1>2, WeightsAre
  <1>4. PICK q1 \in Nat, d1 \in Nat : q1 = n \div b /\ d1 = n % b /\ d1 < b /\ n = b * q1 + d1
    BY <1>1, DivisionIs
  <1>5. PICK q2 \in Nat, d2 \in Nat : q2 = q1 \div b /\ d2 = q1 % b /\ d2 < b /\ q1 = b * q2 + d2
    BY <1>1, DivisionIs
  <1>6. PICK q3 \in Nat, d3 \in Nat : q3 = q2 \div b /\ d3 = q2 % b /\ d3 < b /\ q2 = b * q3 + d3
    BY <1>1, DivisionIs
  <1>7. PICK q4 \in Nat, d4 \in Nat : q4 = q3 \div b /\ d4 = q3 % b /\ d4 < b /\ q3 = b * q4 + d4
    BY <1>1, DivisionIs
  <1>8. q2 = n \div w2
    BY <1>1, <1>3, <1>4, <1>5, DivisionNested
  <1>9. q3 = n \div w3
    <2>1. (n \div w2) \div b = n \div (w2 * b)
      BY <1>1, DivisionNested
    <2> QED
      BY <1>3, <1>6, <1>8, <2>1
  <1>10. n \div 1 = n
    BY Z3
  <1>11. d1 = Digit(n, 1) /\ d2 = Digit(n, 2) /\ d3 = Digit(n, 3) /\ d4 = Digit(n, 4)
    <2>1. Weight[1 - 1] = 1 /\ Weight[2 - 1] = b /\ Weight[3 - 1] = w2 /\ Weight[4 - 1] = w3
      <3>1. 1 - 1 = 0 /\ 2 - 1 = 1 /\ 3 - 1 = 2 /\ 4 - 1 = 3
        OBVIOUS
      <3> QED
        BY <1>2, <1>3, <3>1, Zenon
    <2>2. Digit(n, 1) = (n \div 1) % b /\ Digit(n, 2) = (n \div b) % b
          /\ Digit(n, 3) = (n \div w2) % b /\ Digit(n, 4) = (n \div w3) % b
      BY <1>1, <2>1 DEF Digit
    <2> QED
      BY <1>4, <1>5, <1>6, <1>7, <1>8, <1>9, <1>10, <2>2
  <1>12. PICK p1 \in Nat, p2 \in Nat, p3 \in Nat, p4 \in Nat :
           p1 = d2 * b /\ p2 = d3 * w2 /\ p3 = d4 * w3 /\ p4 = q4 * w4
    OBVIOUS
  <1>13. PICK r2 \in Nat, r3 \in Nat : r2 = q2 * w2 /\ r3 = q3 * w3
    OBVIOUS
  <1>14. n = d1 + p1 + r2
    <2>1. b * (b * q2 + d2) = q2 * (b * b) + d2 * b
      BY Z3
    <2> QED
      BY <1>3, <1>4, <1>5, <1>12, <1>13, <2>1
  <1>15. r2 = r3 + p2
    <2>1. (b * q3 + d3) * w2 = q3 * (w2 * b) + d3 * w2
      BY Z3
    <2> QED
      BY <1>3, <1>6, <1>12, <1>13, <2>1
  <1>16. r3 = p4 + p3
    <2>1. (b * q4 + d4) * w3 = q4 * (w3 * b) + d4 * w3
      BY Z3
    <2> QED
      BY <1>3, <1>7, <1>12, <1>13, <2>1
  <1>17. d1 + p1 < w2
    <2>1. PICK k \in Nat : b = d2 + 1 + k
      <3>1. b - d2 - 1 \in Nat /\ b = d2 + 1 + (b - d2 - 1)
        BY <1>5
      <3> QED
        BY <3>1
    <2>2. (d2 + 1 + k) * b = d2 * b + b + k * b /\ k * b \in Nat
      OBVIOUS
    <2>3. b * b = (d2 + 1 + k) * b
      BY <2>1
    <2> QED
      BY <1>3, <1>4, <1>12, <2>2, <2>3
  <1>18. q2 = 0 <=> r2 = 0
    <2>1. q2 # 0 => q2 * w2 >= w2
      BY ProductGrows
    <2> QED
      BY <1>13, <2>1
  <1>19. q2 # 0 => r2 >= w2
    BY <1>13, ProductGrows
  <1>20. q4 # 0 => p4 >= w4
    BY <1>12, ProductGrows
  <1>21. q4 = 0 => p4 = 0
    BY <1>12
  <1>22. q2 = 0 => d3 = 0 /\ q3 = 0
    <2>1. q3 # 0 => b * q3 >= q3
      BY <1>1, ProductGrows
    <2>2. b * q3 \in Nat
      OBVIOUS
    <2> QED
      BY <1>6, <2>1, <2>2
  <1>23. q3 = 0 => d4 = 0 /\ q4 = 0
    <2>1. q4 # 0 => b * q4 >= q4
      BY <1>1, ProductGrows
    <2>2. b * q4 \in Nat
      OBVIOUS
    <2> QED
      BY <1>7, <2>1, <2>2
  <1>24. d3 = 0 /\ d4 = 0 /\ q4 = 0 => q2 = 0
    <2>1. d4 = 0 => p3 = 0
      BY <1>12
    <2>2. d3 = 0 => p2 = 0
      BY <1>12
    <2> QED
      BY <1>15, <1>16, <1>18, <1>21, <2>1, <2>2
  <1>25. n < w2 <=> q2 = 0
    BY <1>14, <1>17, <1>18, <1>19
  <1>26. n < w4 <=> q4 = 0
    <2>1. q4 = 0 => n < w4
      <3>1. p3 + w3 <= w4
        <4>1. PICK k \in Nat : b = d4 + 1 + k
          <5>1. b - d4 - 1 \in Nat /\ b = d4 + 1 + (b - d4 - 1)
            BY <1>7
          <5> QED
            BY <5>1
        <4>2. (d4 + 1 + k) * w3 = d4 * w3 + w3 + k * w3 /\ k * w3 \in Nat
          OBVIOUS
        <4>3. w3 * b = b * w3 /\ b * w3 = (d4 + 1 + k) * w3
          BY <4>1
        <4> QED
          BY <1>3, <1>12, <4>2, <4>3
      <3>2. p2 + w2 <= w3
        <4>1. PICK k \in Nat : b = d3 + 1 + k
          <5>1. b - d3 - 1 \in Nat /\ b = d3 + 1 + (b - d3 - 1)
            BY <1>6
          <5> QED
            BY <5>1
        <4>2. (d3 + 1 + k) * w2 = d3 * w2 + w2 + k * w2 /\ k * w2 \in Nat
          OBVIOUS
        <4>3. w2 * b = b * w2 /\ b * w2 = (d3 + 1 + k) * w2
          BY <4>1
        <4> QED
          BY <1>3, <1>12, <4>2, <4>3
      <3> QED
        BY <1>14, <1>15, <1>16, <1>17, <1>21, <3>1, <3>2
    <2> QED
      BY <1>14, <1>15, <1>16, <1>20, <2>1
  <1>27. n = d1 + p1 + p2 + p3 + p4
    BY <1>14, <1>15, <1>16
  <1>28. d1 \in 0 .. Byte - 1 /\ d2 \in 0 .. Byte - 1 /\ d3 \in 0 .. Byte - 1 /\ d4 \in 0 .. Byte - 1
    BY <1>1, <1>4, <1>5, <1>6, <1>7
  <1>29. InDigits(n, d1, d2, d3, d4, q2, q4)
    <2>1. n = d1 + d2 * Weight[1] + q2 * Weight[2]
      BY <1>2, <1>3, <1>12, <1>13, <1>14
    <2>2. n = d1 + d2 * Weight[1] + d3 * Weight[2] + d4 * Weight[3] + q4 * Weight[4]
      BY <1>2, <1>3, <1>12, <1>27
    <2>3. d1 + d2 * Weight[1] < Weight[2]
      BY <1>2, <1>3, <1>12, <1>17
    <2>4. q2 = 0 <=> d3 = 0 /\ d4 = 0 /\ q4 = 0
      BY <1>22, <1>23, <1>24
    <2> QED
      BY <1>2, <1>8, <1>11, <1>25, <1>26, <2>1, <2>2, <2>3, <2>4 DEF InDigits
  <1> QED
    BY <1>28, <1>29


LEMMA MaximaAre ==
  /\ MAX128 = Weight[2] - 1 /\ MAX256 = Weight[4] - 1 /\ MAX128 \in Nat /\ MAX256 \in Nat
  <1>1. Weight[2] \in Nat \ {0} /\ Weight[4] \in Nat \ {0}
    BY WeightsGrow
  <1> QED
    BY <1>1 DEF MAX128, MAX256, BYTE_LENGTH128, BYTE_LENGTH256

\* The bytes of a number are digits.
LEMMA LeBytesAre ==
  ASSUME NEW n \in Nat, NEW L \in 1 .. 5
  PROVE  /\ LeBytes(n, L) \in [1 .. L -> Nat] /\ LeBytes(n, L) \in Seq(Nat) /\ Len(LeBytes(n, L)) = L
         /\ \A i \in 1 .. L : LeBytes(n, L)[i] = Digit(n, i)
  <1>1. ASSUME NEW i \in 1 .. L PROVE Digit(n, i) \in Nat
    <2>1. i - 1 \in 0 .. 5
      OBVIOUS
    <2>2. PICK w \in Nat \ {0} : w = Weight[i - 1]
      BY <2>1, WeightsGrow
    <2>3. PICK q \in Nat : q = n \div w
      BY DivisionIs
    <2>4. PICK b \in Nat \ {0} : b = Byte
      BY WeightsAre
    <2>5. q % b \in Nat
      BY DivisionIs
    <2> QED
      BY <2>2, <2>3, <2>4, <2>5 DEF Digit
  <1>2. LeBytes(n, L) = [i \in 1 .. L |-> Digit(n, i)]
    BY DEF LeBytes, Digit
  <1>3. PICK bytes : bytes = LeBytes(n, L)
    OBVIOUS
  <1>4. bytes \in [1 .. L -> Nat] /\ \A i \in 1 .. L : bytes[i] = Digit(n, i)
    BY <1>1, <1>2, <1>3
  <1>5. bytes \in Seq(Nat) /\ Len(bytes) = L
    BY <1>4
  <1> QED
    BY <1>3, <1>4, <1>5

\* The bytes of a number that has room in them say what it is.
LEMMA LeBytesSum ==
  ASSUME NEW L \in {2, 4}, NEW n \in Nat, n < Weight[L]
  PROVE  FromLeBytes(LeBytes(n, L)) = n
  <1>1. PICK bytes : bytes = LeBytes(n, L)
    OBVIOUS
  <1>2. bytes \in [1 .. L -> Nat] /\ \A i \in 1 .. L : bytes[i] = Digit(n, i)
    <2>1. L \in 1 .. 5
      OBVIOUS
    <2> QED
      BY <1>1, <2>1, LeBytesAre
  <1>3. PICK d1 \in 0 .. Byte - 1, d2 \in 0 .. Byte - 1, d3 \in 0 .. Byte - 1, d4 \in 0 .. Byte - 1,
             q2 \in Nat, q4 \in Nat : InDigits(n, d1, d2, d3, d4, q2, q4)
    BY Digits
  <1>4. PICK w1 \in Nat, w2 \in Nat, w3 \in Nat, w4 \in Nat :
          w1 = Weight[1] /\ w2 = Weight[2] /\ w3 = Weight[3] /\ w4 = Weight[4]
    BY WeightsGrow
  <1>5. d1 \in Nat /\ d2 \in Nat /\ d3 \in Nat /\ d4 \in Nat
    BY WeightsAre
  <1>6. PICK p1 \in Nat, p2 \in Nat, p3 \in Nat, r2 \in Nat, r4 \in Nat :
          p1 = d2 * w1 /\ p2 = d3 * w2 /\ p3 = d4 * w3 /\ r2 = q2 * w2 /\ r4 = q4 * w4
    BY <1>5
  <1>7. n = d1 + p1 + r2 /\ n = d1 + p1 + p2 + p3 + r4
    BY <1>3, <1>4, <1>6 DEF InDigits
  <1>8. CASE L = 2
    <2>1. q2 = 0
      BY <1>3, <1>8 DEF InDigits
    <2>2. r2 = 0
      BY <1>6, <2>1
    <2>3. bytes[1] = d1 /\ bytes[2] = d2
      BY <1>2, <1>3, <1>8 DEF InDigits
    <2>4. FromLeBytes(bytes) = bytes[1] + bytes[2] * Weight[1]
      BY <1>2, <1>8, FromLeBytesIs
    <2>5. FromLeBytes(bytes) = d1 + p1
      BY <1>4, <1>6, <2>3, <2>4
    <2> QED
      BY <1>1, <1>5, <1>7, <2>2, <2>5
  <1>9. CASE L = 4
    <2>1. q4 = 0
      BY <1>3, <1>9 DEF InDigits
    <2>2. r4 = 0
      BY <1>6, <2>1
    <2>3. bytes[1] = d1 /\ bytes[2] = d2 /\ bytes[3] = d3 /\ bytes[4] = d4
      BY <1>2, <1>3, <1>9 DEF InDigits
    <2>4. FromLeBytes(bytes) = bytes[1] + bytes[2] * Weight[1] + bytes[3] * Weight[2] + bytes[4] * Weight[3]
      BY <1>2, <1>9, FromLeBytesIs
    <2>5. FromLeBytes(bytes) = d1 + p1 + p2 + p3
      BY <1>4, <1>6, <2>3, <2>4
    <2> QED
      BY <1>1, <1>5, <1>7, <2>2, <2>5
  <1> QED
    BY <1>8, <1>9

\* to_tokens128 returns the amount that a u128 can hold.
LEMMA ToTokens128Is ==
  ASSUME NEW a \in 0 .. MAX256
  PROVE  ToTokens128(a) = IF a <= MAX128 THEN a ELSE NoTokens
  <1>1. PICK n \in Nat : n = a /\ n < Weight[4]
    <2>1. Weight[4] \in Nat
      BY WeightsGrow
    <2>2. a \in Nat /\ a < Weight[4]
      BY <2>1, MaximaAre
    <2> QED
      BY <2>2
  <1>2. PICK bytes : bytes = LeBytes(n, 4)
    OBVIOUS
  <1>3. bytes \in [1 .. 4 -> Nat] /\ bytes \in Seq(Nat) /\ Len(bytes) = 4
        /\ \A i \in 1 .. 4 : bytes[i] = Digit(n, i)
    <2>1. PICK L \in 1 .. 5 : L = 4
      OBVIOUS
    <2>2. LeBytes(n, L) = bytes
      BY <1>2, <2>1
    <2>3. /\ LeBytes(n, L) \in [1 .. L -> Nat] /\ LeBytes(n, L) \in Seq(Nat) /\ Len(LeBytes(n, L)) = L
          /\ \A i \in 1 .. L : LeBytes(n, L)[i] = Digit(n, i)
      BY LeBytesAre
    <2> QED
      BY <2>1, <2>2, <2>3
  <1>4. PICK d1 \in 0 .. Byte - 1, d2 \in 0 .. Byte - 1, d3 \in 0 .. Byte - 1, d4 \in 0 .. Byte - 1,
             q2 \in Nat, q4 \in Nat : InDigits(n, d1, d2, d3, d4, q2, q4)
    BY Digits
  <1>5. d1 \in Nat /\ d2 \in Nat /\ Weight[1] \in Nat /\ Weight[2] \in Nat
    BY WeightsAre, WeightsGrow
  <1>6. bytes[1] = d1 /\ bytes[2] = d2 /\ bytes[3] = d3 /\ bytes[4] = d4
    BY <1>3, <1>4 DEF InDigits
  <1>7. (\E i \in 3 .. 4 : bytes[i] # 0) <=> ~ (n < Weight[2])
    <2>1. (\E i \in 3 .. 4 : bytes[i] # 0) <=> d3 # 0 \/ d4 # 0
      BY <1>6
    <2>2. q4 = 0
      BY <1>1, <1>4 DEF InDigits
    <2> QED
      BY <1>4, <2>1, <2>2 DEF InDigits
  <1>8. ASSUME n < Weight[2] PROVE FromLeBytes(SubSeq(bytes, 1, 2)) = n
    <2>1. PICK low : low = SubSeq(bytes, 1, 2)
      OBVIOUS
    <2>2. low \in [1 .. 2 -> Nat] /\ low[1] = d1 /\ low[2] = d2
      <3>1. PICK m \in Int, e \in Int : m = 1 /\ e = 2
        OBVIOUS
      <3>2. PICK N : m = 1 /\ e = 2 /\ N = Nat
        BY <3>1
      <3>3. \A i \in m .. e : bytes[i] \in N
        BY <1>3, <3>2
      <3>4. SubSeq(bytes, m, e) \in Seq(N) /\ Len(SubSeq(bytes, m, e)) = (IF m <= e THEN e - m + 1 ELSE 0)
            /\ \A i \in 1 .. e - m + 1 : SubSeq(bytes, m, e)[i] = bytes[m + i - 1]
        BY <3>3, SubSeqProperties
      <3>5. low \in Seq(Nat) /\ Len(low) = 2 /\ \A i \in 1 .. 2 : low[i] = bytes[i]
        BY <2>1, <3>2, <3>4
      <3> QED
        BY <1>6, <3>5
    <2>3. FromLeBytes(low) = low[1] + low[2] * Weight[1]
      <3>1. PICK L \in {2, 4} : L = 2
        OBVIOUS
      <3>2. low \in [1 .. L -> Nat]
        BY <2>2, <3>1
      <3> QED
        BY <3>1, <3>2, FromLeBytesIs
    <2>4. n = d1 + d2 * Weight[1] + q2 * Weight[2] /\ q2 = 0
      BY <1>4, <1>8 DEF InDigits
    <2>5. PICK p1 \in Nat : p1 = d2 * Weight[1]
      BY <1>5
    <2>6. q2 * Weight[2] = 0
      BY <1>5, <2>4
    <2>7. n = d1 + p1
      BY <1>5, <2>4, <2>5, <2>6
    <2> QED
      BY <2>1, <2>2, <2>3, <2>5, <2>7
  <1>9. n < Weight[2] <=> a <= MAX128
    BY <1>1, <1>5, MaximaAre
  <1>10. ToTokens128(a) = IF \E i \in 3 .. 4 : bytes[i] # 0 THEN NoTokens
                          ELSE FromLeBytes(SubSeq(bytes, 1, 2))
    <2>1. BYTE_LENGTH128 + 1 = 3 /\ BYTE_LENGTH128 = 2 /\ BYTE_LENGTH256 = 4
      BY DEF BYTE_LENGTH128, BYTE_LENGTH256
    <2> QED
      BY <1>1, <1>2, <2>1, Zenon DEF ToTokens128
  <1> QED
    BY <1>1, <1>7, <1>8, <1>9, <1>10


\* Tokens256::to_nat loses nothing.
LEMMA ToNat256Is ==
  ASSUME NEW a \in 0 .. MAX256
  PROVE  ToNat256(a) = a
  <1>1. PICK w2 \in Nat \ {0}, w1 \in Nat, w3 \in Nat : w2 = Weight[2] /\ w1 = Weight[1] /\ w3 = Weight[3]
    BY WeightsGrow
  <1>2. w3 = w2 * w1 /\ Weight[4] = w2 * w2 /\ Weight[0] = 1
    <2>1. w1 = Byte /\ w2 = w1 * w1 /\ w3 = w2 * w1 /\ Weight[4] = w3 * w1 /\ Weight[0] = 1
      BY <1>1, WeightsAre
    <2>2. (w2 * w1) * w1 = w2 * (w1 * w1)
      BY Z3
    <2> QED
      BY <2>1, <2>2
  <1>3. a \in Nat /\ a < w2 * w2
    <2>1. Weight[4] \in Nat
      BY WeightsGrow
    <2> QED
      BY <1>2, <2>1, MaximaAre
  <1>4. PICK q \in Nat, r \in Nat : q = a \div w2 /\ r = a % w2 /\ r < w2 /\ a = w2 * q + r
    BY <1>3, DivisionIs
  <1>5. q < w2
    <2> SUFFICES ASSUME q >= w2 PROVE FALSE
      OBVIOUS
    <2>1. PICK k \in Nat : q = w2 + k
      <3>1. q - w2 \in Nat /\ q = w2 + (q - w2)
        OBVIOUS
      <3> QED
        BY <3>1
    <2>2. w2 * (w2 + k) = w2 * w2 + w2 * k /\ w2 * k \in Nat /\ w2 * w2 \in Nat
      OBVIOUS
    <2> QED
      BY <1>3, <1>4, <2>1, <2>2
  <1>6. q % w2 = q
    BY <1>5, Remainder
  <1>7. a \div 1 = a
    BY <1>3, Z3
  <1>8. PICK low, high : low = LeBytes(r, 2) /\ high = LeBytes(q, 2)
    OBVIOUS
  <1>9. ToNat256(a) = FromLeBytes(low \o high)
    <2>1. 2 * 0 = 0 /\ 2 * 1 = 2
      OBVIOUS
    <2>2. (a \div Weight[2 * 0]) % Weight[2] = r
      BY <1>1, <1>2, <1>4, <1>7, <2>1, Zenon
    <2>3. (a \div Weight[2 * 1]) % Weight[2] = q
      BY <1>1, <1>4, <1>6, <2>1, Zenon
    <2> QED
      BY <1>8, <2>2, <2>3, Zenon DEF ToNat256
  <1>10. /\ low \in Seq(Nat) /\ Len(low) = 2 /\ high \in Seq(Nat) /\ Len(high) = 2
         /\ low \in [1 .. 2 -> Nat] /\ high \in [1 .. 2 -> Nat]
    <2>1. PICK L \in 1 .. 5 : L = 2
      OBVIOUS
    <2>2. /\ LeBytes(r, L) \in [1 .. L -> Nat] /\ LeBytes(r, L) \in Seq(Nat) /\ Len(LeBytes(r, L)) = L
          /\ LeBytes(q, L) \in [1 .. L -> Nat] /\ LeBytes(q, L) \in Seq(Nat) /\ Len(LeBytes(q, L)) = L
      BY LeBytesAre
    <2> QED
      BY <1>8, <2>1, <2>2
  <1>11. FromLeBytes(low) = r /\ FromLeBytes(high) = q
    <2>1. PICK L \in {2, 4} : L = 2
      OBVIOUS
    <2>2. r < Weight[L] /\ q < Weight[L]
      BY <1>1, <1>4, <1>5, <2>1
    <2>3. FromLeBytes(LeBytes(r, L)) = r /\ FromLeBytes(LeBytes(q, L)) = q
      BY <2>2, LeBytesSum
    <2> QED
      BY <1>8, <2>1, <2>3
  <1>12. PICK b1 \in Nat, b2 \in Nat, b3 \in Nat, b4 \in Nat :
           b1 = low[1] /\ b2 = low[2] /\ b3 = high[1] /\ b4 = high[2]
    BY <1>10
  <1>13. r = b1 + b2 * w1 /\ q = b3 + b4 * w1
    <2>1. PICK L \in {2, 4} : L = 2
      OBVIOUS
    <2>2. low \in [1 .. L -> Nat] /\ high \in [1 .. L -> Nat]
      BY <1>10, <2>1
    <2>3. FromLeBytes(low) = low[1] + low[2] * Weight[1] /\ FromLeBytes(high) = high[1] + high[2] * Weight[1]
      BY <2>1, <2>2, FromLeBytesIs
    <2> QED
      BY <1>1, <1>11, <1>12, <2>3
  <1>14. PICK all : all = low \o high
    OBVIOUS
  <1>15. all \in [1 .. 4 -> Nat] /\ all[1] = b1 /\ all[2] = b2 /\ all[3] = b3 /\ all[4] = b4
    <2>1. PICK N : N = Nat
      OBVIOUS
    <2>2. low \in Seq(N) /\ high \in Seq(N)
      BY <1>10, <2>1
    <2>3. all \in Seq(N) /\ Len(all) = Len(low) + Len(high)
          /\ \A i \in 1 .. Len(low) + Len(high) : all[i] = IF i <= Len(low) THEN low[i] ELSE high[i - Len(low)]
      BY <1>14, <2>2, ConcatProperties
    <2>4. all \in Seq(Nat) /\ Len(all) = 4 /\ \A i \in 1 .. 4 : all[i] = IF i <= 2 THEN low[i] ELSE high[i - 2]
      BY <1>10, <2>1, <2>3
    <2>5. all[1] = low[1] /\ all[2] = low[2] /\ all[3] = high[1] /\ all[4] = high[2]
      <3>1. 3 - 2 = 1 /\ 4 - 2 = 2
        OBVIOUS
      <3> QED
        BY <2>4, <3>1
    <2> QED
      BY <1>12, <2>4, <2>5
  <1>16. FromLeBytes(all) = b1 + b2 * w1 + b3 * w2 + b4 * w3
    <2>1. PICK L \in {2, 4} : L = 4
      OBVIOUS
    <2>2. all \in [1 .. L -> Nat]
      BY <1>15, <2>1
    <2>3. FromLeBytes(all) = all[1] + all[2] * Weight[1] + all[3] * Weight[2] + all[4] * Weight[3]
      BY <2>1, <2>2, FromLeBytesIs
    <2> QED
      BY <1>1, <1>15, <2>3
  <1>17. w2 * (b3 + b4 * w1) = b3 * w2 + b4 * (w2 * w1)
    BY Z3
  <1>18. PICK x1 \in Nat, x2 \in Nat, x3 \in Nat : x1 = b2 * w1 /\ x2 = b3 * w2 /\ x3 = b4 * w3
    OBVIOUS
  <1>19. w2 * q = x2 + x3
    BY <1>2, <1>13, <1>17, <1>18
  <1>20. FromLeBytes(all) = a
    BY <1>4, <1>13, <1>16, <1>18, <1>19
  <1> QED
    BY <1>9, <1>14, <1>20

\* The least length with room for a number
LEMMA NatLengthIs ==
  ASSUME NEW n \in Nat, n < Weight[5]
  PROVE  /\ NatLength(n) \in 1 .. 5 /\ n < Weight[NatLength(n)]
         /\ \A k \in 1 .. 5 : k < NatLength(n) => Weight[k] <= n
  <1> DEFINE T == {k \in 1 .. 8 : n < Weight[k]}
  <1>1. T \in SUBSET Nat /\ 5 \in T
    OBVIOUS
  <1>2. NatLength(n) = Min(T)
    <2>1. 2 * BYTE_LENGTH256 = 8
      BY DEF BYTE_LENGTH256
    <2> QED
      BY <2>1 DEF NatLength
  <1>3. Min(T) \in T /\ \A k \in T : Min(T) <= k
    <2> HIDE DEF T
    <2>1. PICK m \in T : \A k \in T : m <= k
      BY <1>1, LeastNumber
    <2> QED
      BY <2>1 DEF Min
  <1>4. PICK m : m = NatLength(n)
    OBVIOUS
  <1>5. m \in T /\ \A k \in T : m <= k
    BY <1>2, <1>3, <1>4
  <1>6. m \in 1 .. 5 /\ n < Weight[m]
    BY <1>1, <1>5
  <1>7. ASSUME NEW k \in 1 .. 5, k < m PROVE Weight[k] <= n
    <2>1. k \notin T /\ Weight[k] \in Nat
      BY <1>5, <1>6, <1>7, WeightsGrow
    <2> QED
      BY <2>1
  <1> QED
    BY <1>4, <1>6, <1>7

\* from_nat returns the number that has room, and refuses the others.
LEMMA FromNatIs ==
  ASSUME NEW n \in Nat, n < Weight[5], NEW L \in {2, 4}
  PROVE  FromNat(n, L) = IF n < Weight[L] THEN n ELSE NoTokens
  <1>1. PICK m \in 1 .. 5 : /\ m = NatLength(n) /\ n < Weight[m]
                            /\ \A k \in 1 .. 5 : k < m => Weight[k] <= n
    BY NatLengthIs
  <1>2. PICK bytes : bytes = LeBytes(n, m)
    OBVIOUS
  <1>3. Len(bytes) = m /\ \A i \in 1 .. m : bytes[i] = Digit(n, i)
    BY <1>2, LeBytesAre
  <1>4. FromNat(n, L) = IF m > L THEN NoTokens ELSE FromLeBytes(Resize(bytes, L))
    BY <1>1, <1>2, <1>3 DEF FromNat
  <1>5. Weight[L] \in Nat /\ Weight[m] \in Nat /\ L \in 1 .. 5
    BY WeightsGrow
  <1>6. CASE m > L
    <2>1. Weight[L] <= n
      BY <1>1, <1>5, <1>6
    <2> QED
      BY <1>4, <1>5, <1>6, <2>1
  <1>7. CASE ~ (m > L)
    <2>1. Weight[m] <= Weight[L]
      BY <1>5, <1>7, WeightsGrow
    <2>2. n < Weight[L]
      BY <1>1, <1>5, <2>1
    <2>3. ASSUME NEW i \in 1 .. L PROVE (IF i <= m THEN bytes[i] ELSE 0) = Digit(n, i)
      <3>1. CASE i <= m
        BY <1>3, <3>1
      <3>2. CASE ~ (i <= m)
        <4>1. i - 1 \in 0 .. 5 /\ m <= i - 1 /\ m \in 0 .. 5
          BY <3>2
        <4>2. PICK w \in Nat \ {0} : w = Weight[i - 1]
          BY <4>1, WeightsGrow
        <4>3. Weight[m] <= w
          BY <4>1, <4>2, WeightsGrow
        <4>4. n < w
          BY <1>1, <1>5, <4>3
        <4>5. n \div w = 0
          BY <4>4, Z3
        <4>6. 0 % Byte = 0
          BY WeightsAre, Z3
        <4> QED
          BY <3>2, <4>2, <4>5, <4>6 DEF Digit
      <3> QED
        BY <3>1, <3>2
    <2>4. Resize(bytes, L) = LeBytes(n, L)
      <3>1. Resize(bytes, L) = [i \in 1 .. L |-> IF i <= m THEN bytes[i] ELSE 0]
        BY <1>3 DEF Resize
      <3>2. LeBytes(n, L) = [i \in 1 .. L |-> Digit(n, i)]
        BY DEF LeBytes, Digit
      <3> QED
        BY <2>3, <3>1, <3>2
    <2>5. FromLeBytes(LeBytes(n, L)) = n
      BY <2>2, LeBytesSum
    <2> QED
      BY <1>4, <1>7, <2>2, <2>4, <2>5
  <1> QED
    BY <1>6, <1>7


\* Every factor of a larger product is larger.
LEMMA ProductsOrder ==
  ASSUME NEW c \in Nat, NEW x \in Nat, NEW y \in Nat, x <= y
  PROVE  c * x <= c * y /\ x * c <= y * c
  <1>1. PICK k \in Nat : y = x + k
    <2>1. y - x \in Nat /\ y = x + (y - x)
      OBVIOUS
    <2> QED
      BY <2>1
  <1>2. c * (x + k) = c * x + c * k /\ c * k \in Nat /\ c * x \in Nat /\ x * c = c * x
        /\ (x + k) * c = c * (x + k)
    OBVIOUS
  <1> QED
    BY <1>1, <1>2

\* A product of two Tokens128 is a Tokens256.
LEMMA ProductFits ==
  ASSUME NEW l \in 0 .. MAX128, NEW r \in 0 .. MAX128
  PROVE  l * r \in 0 .. MAX256
  <1>1. PICK m \in Nat : m = MAX128
    BY MaximaAre
  <1>2. PICK w \in Nat \ {0} : w = Weight[2] /\ m = w - 1
    <2>1. Weight[2] \in Nat \ {0} /\ m = Weight[2] - 1
      BY <1>1, WeightsGrow, MaximaAre
    <2> QED
      BY <2>1
  <1>3. Weight[4] = w * w
    <2>1. PICK b \in Nat : b = Byte
      BY WeightsAre
    <2>2. w = b * b /\ Weight[4] = (w * b) * b
      BY <1>2, <2>1, WeightsAre
    <2>3. (w * b) * b = w * (b * b)
      BY Z3
    <2> QED
      BY <2>2, <2>3
  <1>4. l \in Nat /\ r \in Nat /\ l <= m /\ r <= m
    BY <1>1
  <1>5. l * r <= m * r /\ m * r <= m * m
    BY <1>4, ProductsOrder
  <1>6. l * r \in Nat /\ m * r \in Nat /\ m * m \in Nat /\ w * w \in Nat
    BY <1>4
  <1>7. m * m <= w * w - 1
    <2>1. (m + 1) * (m + 1) = m * m + 2 * m + 1
      BY Z3
    <2>2. w * w = (m + 1) * (m + 1)
      BY <1>2
    <2> QED
      BY <1>6, <2>1, <2>2
  <1>8. MAX256 = w * w - 1
    BY <1>3, MaximaAre
  <1> QED
    BY <1>5, <1>6, <1>7, <1>8

\* The root of a square.
LEMMA SqrtIs ==
  ASSUME NEW l \in 0 .. MAX128
  PROVE  Sqrt(l * l) = l
  <1> DEFINE S == {r \in 0 .. MAX128 : r * r <= l * l}
  <1>1. PICK m \in Nat : m = MAX128
    BY MaximaAre
  <1>2. l \in Nat /\ l * l \in Nat
    BY <1>1
  <1>3. l \in S
    BY <1>2
  <1>4. ASSUME NEW r \in S, r > l PROVE FALSE
    <2>1. r \in Nat /\ r * r <= l * l
      BY <1>1
    <2>2. PICK k \in Nat : r = l + 1 + k
      <3>1. r - l - 1 \in Nat /\ r = l + 1 + (r - l - 1)
        BY <1>2, <1>4, <2>1
      <3> QED
        BY <3>1
    <2>3. (l + 1 + k) * (l + 1 + k) = l * l + 2 * l + 1 + (2 * (l * k) + 2 * k + k * k)
      BY <1>2, Z3
    <2>4. l * k \in Nat /\ k * k \in Nat
      BY <1>2
    <2>5. r * r = l * l + 2 * l + 1 + (2 * (l * k) + 2 * k + k * k)
      BY <2>2, <2>3
    <2> QED
      BY <1>2, <2>1, <2>4, <2>5
  <1>5. S \in SUBSET Int /\ \A r \in S : r <= l
    BY <1>1, <1>2, <1>4
  <1>6. Max(S) = l
    <2> HIDE DEF S
    <2> QED
      BY <1>3, <1>5, MaxIs
  <1> QED
    BY <1>6 DEF Sqrt

\* The powers of two
LEMMA TwoToAre ==
  /\ TwoTo[0] = 1
  /\ \A e \in 0 .. 16 : TwoTo[e] \in Nat \ {0}
  /\ \A e \in 1 .. 16 : TwoTo[e] = TwoTo[e - 1] * 2
  /\ \A e \in 0 .. 16, f \in 0 .. 16 : e <= f => TwoTo[e] <= TwoTo[f]
  <1>1. PICK n \in Nat, m \in Nat : n = 16 /\ m = 2
    OBVIOUS
  <1>2. PICK p : p = PowersOf(m, n)
    OBVIOUS
  <1>3. TwoTo = p
    BY <1>1, <1>2 DEF TwoTo, BYTE_LENGTH128
  <1>4. PowersUpto(p, m, n)
    BY <1>2, PowersOfAre
  <1>5. p[0] = 1 /\ (\A e \in 0 .. 16 : p[e] \in Nat) /\ \A e \in 1 .. 16 : p[e] = p[e - 1] * 2
    BY <1>1, <1>4 DEF PowersUpto
  <1>6. \A e \in 0 .. 16 : p[e] # 0
    <2> DEFINE T == {e \in 0 .. 16 : p[e] = 0}
    <2> SUFFICES ASSUME T # {} PROVE FALSE
      OBVIOUS
    <2>1. T \in SUBSET Nat
      OBVIOUS
    <2>2. PICK e \in T : \A y \in T : e <= y
      <3> HIDE DEF T
      <3> QED
        BY <2>1, LeastNumber
    <2>3. e \in 1 .. 16 /\ e - 1 \in 0 .. 16 /\ e - 1 \notin T /\ p[e] = 0
      BY <1>5, <2>2
    <2>4. p[e - 1] \in Nat /\ p[e - 1] # 0 /\ p[e] = p[e - 1] * 2
      BY <1>5, <2>3
    <2> QED
      BY <2>3, <2>4
  <1>7. ASSUME NEW e \in 0 .. 16 PROVE \A f \in 0 .. 16 : e <= f => p[e] <= p[f]
    <2> DEFINE T == {f \in 0 .. 16 : e <= f /\ ~ (p[e] <= p[f])}
    <2> SUFFICES ASSUME T # {} PROVE FALSE
      OBVIOUS
    <2>1. T \in SUBSET Nat
      OBVIOUS
    <2>2. PICK f \in T : \A y \in T : f <= y
      <3> HIDE DEF T
      <3> QED
        BY <2>1, LeastNumber
    <2>3. f \in 0 .. 16 /\ e <= f /\ p[e] \in Nat /\ p[f] \in Nat /\ ~ (p[e] <= p[f])
      BY <1>5, <2>2
    <2>4. f # e
      BY <2>3
    <2>5. f \in 1 .. 16 /\ f - 1 \in 0 .. 16 /\ e <= f - 1 /\ f - 1 \notin T
      BY <2>2, <2>3, <2>4
    <2>6. p[f - 1] \in Nat /\ p[e] <= p[f - 1] /\ p[f] = p[f - 1] * 2
      BY <1>5, <2>5
    <2> QED
      BY <2>3, <2>6
  <1> QED
    BY <1>3, <1>5, <1>6, <1>7

\* The exponent of the distance between two floats next to n
Exponent(n) == Max({0} \cup {e \in 1 .. 16 : Mantissa * TwoTo[e] <= n})

LEMMA ExponentIs ==
  ASSUME NEW n \in Nat
  PROVE  \E e \in 0 .. 16 : /\ e = Exponent(n) /\ (e > 0 => Mantissa * TwoTo[e] <= n)
                            /\ \A k \in 1 .. 16 : k > e => ~ (Mantissa * TwoTo[k] <= n)
  <1> DEFINE S == {0} \cup {e \in 1 .. 16 : Mantissa * TwoTo[e] <= n}
             T == {16 - e : e \in S}
  <1>1. \A e \in S : e \in 0 .. 16 /\ 16 - e \in Nat
    OBVIOUS
  <1>2. T \in SUBSET Nat /\ 16 - 0 \in T
    BY <1>1
  <1>3. PICK least \in T : \A y \in T : least <= y
    <2> HIDE DEF T
    <2> QED
      BY <1>2, LeastNumber
  <1>4. PICK m \in S : least = 16 - m
    BY <1>3
  <1>5. ASSUME NEW e \in S PROVE e <= m
    <2>1. least <= 16 - e
      BY <1>3
    <2> QED
      BY <1>1, <1>4, <2>1
  <1>6. S \in SUBSET Int
    BY <1>1
  <1>7. Max(S) = m
    <2> HIDE DEF S
    <2> QED
      BY <1>5, <1>6, MaxIs
  <1>8. m \in 0 .. 16 /\ (m > 0 => Mantissa * TwoTo[m] <= n)
    BY <1>1
  <1>9. ASSUME NEW k \in 1 .. 16, k > m, Mantissa * TwoTo[k] <= n PROVE FALSE
    <2>1. k \in S
      BY <1>9
    <2> QED
      BY <1>5, <1>8, <1>9, <2>1
  <1> QED
    BY <1>7, <1>8, <1>9 DEF Exponent

\* The quotient and the rest of n, and the float nearest to it
Rounds(n, u, q, r, f) ==
  /\ r < u /\ n = u * q + r
  /\ f = IF 2 * r < u \/ (2 * r = u /\ q % 2 = 0) THEN u * q ELSE u * q + u

LEMMA AsF64Is ==
  ASSUME NEW n \in Nat, NEW e \in 0 .. 16, e = Exponent(n)
  PROVE  /\ Ulp(n) = TwoTo[e]
         /\ \E q \in Nat, r \in Nat, f \in Nat : f = AsF64(n) /\ Rounds(n, TwoTo[e], q, r, f)
  <1>1. Ulp(n) = TwoTo[e]
    <2>1. 8 * BYTE_LENGTH128 = 16
      BY DEF BYTE_LENGTH128
    <2> QED
      BY <2>1, Zenon DEF Ulp, Exponent
  <1>2. PICK u \in Nat \ {0} : u = TwoTo[e]
    BY TwoToAre
  <1>3. PICK q \in Nat, r \in Nat : q = n \div u /\ r = n % u /\ r < u /\ n = u * q + r
    BY DivisionIs
  <1>4. PICK d \in Nat : d = u * q
    OBVIOUS
  <1>5. q * u = d /\ n - d = r
    <2>1. q * u = u * q
      OBVIOUS
    <2> QED
      BY <1>3, <1>4, <2>1
  <1>6. AsF64(n) = IF 2 * r < u \/ (2 * r = u /\ q % 2 = 0) THEN d ELSE d + u
    BY <1>1, <1>2, <1>3, <1>5, Zenon DEF AsF64
  <1>7. PICK f \in Nat : f = AsF64(n)
    BY <1>6
  <1>8. Rounds(n, u, q, r, f)
    BY <1>3, <1>4, <1>6, <1>7 DEF Rounds
  <1> QED
    BY <1>1, <1>2, <1>7, <1>8


\* With the same distance, the float of a larger number is not smaller.
LEMMA RoundsInOrder ==
  ASSUME NEW a \in Nat, NEW b \in Nat, a <= b, NEW u \in Nat \ {0},
         NEW qa \in Nat, NEW ra \in Nat, NEW fa \in Nat, Rounds(a, u, qa, ra, fa),
         NEW qb \in Nat, NEW rb \in Nat, NEW fb \in Nat, Rounds(b, u, qb, rb, fb)
  PROVE  fa <= fb
  <1>1. PICK da \in Nat, db \in Nat : da = u * qa /\ db = u * qb
    OBVIOUS
  <1>2. /\ ra < u /\ a = da + ra /\ rb < u /\ b = db + rb
        /\ fa = IF 2 * ra < u \/ (2 * ra = u /\ qa % 2 = 0) THEN da ELSE da + u
        /\ fb = IF 2 * rb < u \/ (2 * rb = u /\ qb % 2 = 0) THEN db ELSE db + u
    BY <1>1 DEF Rounds
  <1>3. CASE qa = qb
    <2>1. da = db /\ qa % 2 = qb % 2
      BY <1>1, <1>3
    <2>2. ra <= rb
      BY <1>2, <2>1
    <2>3. PICK even \in BOOLEAN : even = (qa % 2 = 0)
      OBVIOUS
    <2>4. fa = (IF 2 * ra < u \/ (2 * ra = u /\ even) THEN da ELSE da + u)
          /\ fb = (IF 2 * rb < u \/ (2 * rb = u /\ even) THEN da ELSE da + u)
      BY <1>2, <2>1, <2>3
    <2> QED
      BY <2>2, <2>4
  <1>4. CASE qa < qb
    <2>1. qa + 1 <= qb /\ u * (qa + 1) = u * qa + u
      BY <1>4
    <2>2. u * (qa + 1) <= u * qb
      BY <2>1, ProductsOrder
    <2>3. da + u <= db
      BY <1>1, <2>1, <2>2
    <2> QED
      BY <1>2, <2>3
  <1>5. CASE qa > qb
    <2>1. qb + 1 <= qa /\ u * (qb + 1) = u * qb + u
      BY <1>5
    <2>2. u * (qb + 1) <= u * qa
      BY <2>1, ProductsOrder
    <2>3. db + u <= da
      BY <1>1, <2>1, <2>2
    <2> QED
      BY <1>2, <2>3
  <1> QED
    BY <1>3, <1>4, <1>5

\* The cast to f64 keeps the order.
LEMMA AsF64Monotone ==
  ASSUME NEW a \in Nat, NEW b \in Nat, a <= b
  PROVE  AsF64(a) <= AsF64(b)
  <1>1. PICK ea \in 0 .. 16 : /\ ea = Exponent(a) /\ (ea > 0 => Mantissa * TwoTo[ea] <= a)
                              /\ \A k \in 1 .. 16 : k > ea => ~ (Mantissa * TwoTo[k] <= a)
    BY ExponentIs
  <1>2. PICK eb \in 0 .. 16 : /\ eb = Exponent(b) /\ (eb > 0 => Mantissa * TwoTo[eb] <= b)
                              /\ \A k \in 1 .. 16 : k > eb => ~ (Mantissa * TwoTo[k] <= b)
    BY ExponentIs
  <1>3. PICK ua \in Nat \ {0}, ub \in Nat \ {0} : ua = TwoTo[ea] /\ ub = TwoTo[eb]
    BY TwoToAre
  <1>4. PICK m \in Nat \ {0} : m = Mantissa
    BY TokensAssumption
  <1>5. PICK qa \in Nat, ra \in Nat, fa \in Nat : fa = AsF64(a) /\ Rounds(a, ua, qa, ra, fa)
    BY <1>1, <1>3, AsF64Is
  <1>6. PICK qb \in Nat, rb \in Nat, fb \in Nat : fb = AsF64(b) /\ Rounds(b, ub, qb, rb, fb)
    BY <1>2, <1>3, AsF64Is
  <1>7. CASE ea = eb
    <2>1. ua = ub
      BY <1>3, <1>7
    <2> QED
      BY <1>5, <1>6, <2>1, RoundsInOrder
  <1>8. ASSUME ea > eb PROVE FALSE
    <2>1. ea \in 1 .. 16
      BY <1>8
    <2>2. m * ua <= a /\ ~ (m * ua <= b) /\ m * ua \in Nat
      BY <1>1, <1>2, <1>3, <1>4, <1>8, <2>1
    <2> QED
      BY <2>2
  <1>9. CASE ea < eb
    <2>1. PICK k \in 1 .. 16 : k = ea + 1
      BY <1>9
    <2>2. TwoTo[k] = ua * 2
      <3>1. TwoTo[k] = TwoTo[k - 1] * 2 /\ k - 1 = ea
        BY <2>1, TwoToAre
      <3> QED
        BY <1>3, <3>1
    <2>3. ua * 2 <= ub
      <3>1. k \in 0 .. 16 /\ k <= eb
        BY <1>9, <2>1
      <3>2. TwoTo[k] <= TwoTo[eb]
        BY <3>1, TwoToAre
      <3> QED
        BY <1>3, <2>2, <3>2
    <2>4. PICK t \in Nat : t = m * (ua * 2)
      OBVIOUS
    <2>5. ~ (t <= a)
      <3>1. k > ea
        BY <2>1
      <3>2. ~ (Mantissa * TwoTo[k] <= a)
        BY <1>1, <3>1
      <3> QED
        BY <1>4, <2>2, <2>4, <3>2
    <2>6. PICK s \in Nat : s = m * ub
      OBVIOUS
    <2>7. t <= s
      <3>1. ua * 2 \in Nat /\ ub \in Nat
        OBVIOUS
      <3> QED
        BY <2>3, <2>4, <2>6, <3>1, ProductsOrder
    <2>8. s <= b
      BY <1>2, <1>3, <1>4, <1>9, <2>6
    <2>9. fa <= t
      <3>1. PICK d \in Nat : d = ua * qa
        OBVIOUS
      <3>2. a = d + ra /\ fa <= d + ua
        BY <1>5, <3>1 DEF Rounds
      <3>3. d < t
        BY <2>5, <3>2
      <3>4. t = ua * (2 * m)
        BY <2>4, Z3
      <3>5. qa < 2 * m
        <4> SUFFICES ASSUME qa >= 2 * m PROVE FALSE
          OBVIOUS
        <4>1. ua * (2 * m) <= ua * qa
          BY ProductsOrder
        <4> QED
          BY <3>1, <3>3, <3>4, <4>1
      <3>6. qa + 1 <= 2 * m /\ 2 * m \in Nat /\ qa + 1 \in Nat
        BY <3>5
      <3>7. ua * (qa + 1) <= ua * (2 * m)
        BY <3>6, ProductsOrder
      <3>8. ua * (qa + 1) = d + ua
        BY <3>1
      <3> QED
        BY <3>2, <3>4, <3>7, <3>8
    <2>10. s <= fb
      <3>1. PICK d \in Nat : d = ub * qb
        OBVIOUS
      <3>2. b = d + rb /\ rb < ub /\ fb >= d
        BY <1>6, <3>1 DEF Rounds
      <3>3. qb >= m
        <4> SUFFICES ASSUME qb < m PROVE FALSE
          OBVIOUS
        <4>1. qb + 1 <= m /\ qb + 1 \in Nat
          OBVIOUS
        <4>2. ub * (qb + 1) <= ub * m
          BY <4>1, ProductsOrder
        <4>3. ub * (qb + 1) = d + ub /\ ub * m = s
          <5>1. ub * m = m * ub
            OBVIOUS
          <5> QED
            BY <2>6, <3>1, <5>1
        <4> QED
          BY <2>8, <3>2, <4>2, <4>3
      <3>4. ub * m <= ub * qb
        BY <3>3, ProductsOrder
      <3>5. ub * m = s
        <4>1. ub * m = m * ub
          OBVIOUS
        <4> QED
          BY <2>6, <4>1
      <3> QED
        BY <3>1, <3>2, <3>4, <3>5
    <2> QED
      BY <1>5, <1>6, <2>7, <2>9, <2>10
  <1> QED
    BY <1>7, <1>8, <1>9

LEMMA AsF64Nat ==
  ASSUME NEW n \in Nat
  PROVE  AsF64(n) \in Nat
  <1>1. PICK e \in 0 .. 16 : e = Exponent(n)
    BY ExponentIs
  <1> QED
    BY <1>1, AsF64Is

\* Where the floats are all integers, so they are below.
LEMMA ExactBelow ==
  ASSUME NEW n \in Nat, NEW m \in Nat, n <= m, Ulp(m) = 1
  PROVE  AsF64(n) = n
  <1>1. PICK em \in 0 .. 16 : /\ em = Exponent(m)
                              /\ \A k \in 1 .. 16 : k > em => ~ (Mantissa * TwoTo[k] <= m)
    BY ExponentIs
  <1>2. PICK e \in 0 .. 16 : e = Exponent(n) /\ (e > 0 => Mantissa * TwoTo[e] <= n)
    BY ExponentIs
  <1>3. TwoTo[em] = 1
    BY <1>1, AsF64Is
  <1>4. em = 0
    <2> SUFFICES ASSUME em # 0 PROVE FALSE
      OBVIOUS
    <2>1. em \in 1 .. 16 /\ em - 1 \in 0 .. 16
      OBVIOUS
    <2>2. PICK t \in Nat \ {0} : t = TwoTo[em - 1]
      BY <2>1, TwoToAre
    <2>3. TwoTo[em] = t * 2
      BY <2>1, <2>2, TwoToAre
    <2> QED
      BY <1>3, <2>3
  <1>5. e = 0
    <2> SUFFICES ASSUME e # 0 PROVE FALSE
      OBVIOUS
    <2>1. e \in 1 .. 16
      OBVIOUS
    <2>2. PICK t \in Nat \ {0}, c \in Nat \ {0} : t = TwoTo[e] /\ c = Mantissa
      BY <2>1, TwoToAre, TokensAssumption
    <2>3. PICK p \in Nat : p = c * t
      OBVIOUS
    <2>4. p <= n /\ ~ (p <= m)
      BY <1>1, <1>2, <1>4, <2>1, <2>2, <2>3
    <2> QED
      BY <2>4
  <1>6. PICK q \in Nat, r \in Nat, f \in Nat : f = AsF64(n) /\ Rounds(n, TwoTo[e], q, r, f)
    BY <1>2, AsF64Is
  <1>7. TwoTo[e] = 1
    BY <1>3, <1>4, <1>5
  <1>8. r < 1 /\ n = 1 * q + r /\ f = IF 2 * r < 1 \/ (2 * r = 1 /\ q % 2 = 0) THEN 1 * q ELSE 1 * q + 1
    BY <1>6, <1>7 DEF Rounds
  <1>9. r = 0
    BY <1>8
  <1> QED
    BY <1>6, <1>8, <1>9

\* One byte more: what it makes of a number below it and of its float.
LEMMA ByteAdded ==
  ASSUME NEW c \in Nat \ {0}, NEW b \in Nat \ {0}, NEW x \in Nat, x < c, NEW f \in Nat, f <= c,
         NEW d \in Nat, d < b, AsF64(c * b) = c * b
  PROVE  x + d * c < c * b /\ AsF64(f + d * c) <= c * b /\ AsF64(f + d * c) \in Nat
  <1>1. PICK k \in Nat : b = d + 1 + k
    <2>1. b - d - 1 \in Nat /\ b = d + 1 + (b - d - 1)
      OBVIOUS
    <2> QED
      BY <2>1
  <1>2. c * (d + 1 + k) = d * c + c + c * k /\ d * c \in Nat /\ c * k \in Nat
    BY Z3
  <1>3. PICK p \in Nat, t \in Nat : p = d * c /\ t = c * b
    BY <1>2
  <1>4. x + p < t /\ f + p <= t
    BY <1>1, <1>2, <1>3
  <1>5. PICK h \in Nat : h = f + p
    OBVIOUS
  <1>6. AsF64(h) <= AsF64(t) /\ AsF64(h) \in Nat
    BY <1>4, <1>5, AsF64Monotone, AsF64Nat
  <1> QED
    BY <1>3, <1>4, <1>5, <1>6

\* One byte more keeps the order.
LEMMA ByteAddedInOrder ==
  ASSUME NEW c \in Nat \ {0}, NEW x \in Nat, x < c, NEW y \in Nat, y < c,
         NEW f \in Nat, NEW g \in Nat, f <= c, x <= y => f <= g,
         NEW d \in Nat, NEW e \in Nat, x + d * c <= y + e * c
  PROVE  AsF64(f + d * c) <= AsF64(g + e * c)
  <1>1. PICK p \in Nat, q \in Nat : p = d * c /\ q = e * c
    OBVIOUS
  <1>2. ASSUME d > e PROVE FALSE
    <2>1. (e + 1) * c <= d * c
      BY <1>2, ProductsOrder
    <2>2. (e + 1) * c = e * c + c
      BY Z3
    <2> QED
      BY <1>1, <2>1, <2>2
  <1>3. f + p <= g + q
    <2>1. CASE d = e
      BY <1>1, <2>1
    <2>2. CASE d < e
      <3>1. (d + 1) * c <= e * c
        BY <2>2, ProductsOrder
      <3>2. (d + 1) * c = d * c + c
        BY Z3
      <3> QED
        BY <1>1, <3>1, <3>2
    <2> QED
      BY <1>2, <2>1, <2>2
  <1>4. PICK h \in Nat, k \in Nat : h = f + p /\ k = g + q
    OBVIOUS
  <1>5. AsF64(h) <= AsF64(k)
    BY <1>3, <1>4, AsF64Monotone
  <1> QED
    BY <1>1, <1>4, <1>5

\* The sums of Tokens256::to_f64 and the numbers they stand for
Sums(a, d1, d2, d3, d4, x2, x3, f1, f2, f3, g) ==
  /\ d1 < Byte /\ d2 < Byte /\ d3 < Byte /\ d4 < Byte
  /\ x2 = d1 + d2 * Weight[1] /\ x3 = x2 + d3 * Weight[2] /\ a = x3 + d4 * Weight[3]
  /\ d1 < Weight[1] /\ x2 < Weight[2] /\ x3 < Weight[3]
  /\ f1 = AsF64(d1) /\ f2 = AsF64(f1 + d2 * Weight[1]) /\ f3 = AsF64(f2 + d3 * Weight[2])
  /\ g = AsF64(f3 + d4 * Weight[3]) /\ g = ToF64Of256(a)
  /\ f1 <= Weight[1] /\ f2 <= Weight[2] /\ f3 <= Weight[3] /\ g <= Weight[4]

LEMMA SumsOfBytes ==
  ASSUME NEW a \in 0 .. MAX256
  PROVE  \E d1 \in Nat, d2 \in Nat, d3 \in Nat, d4 \in Nat, x2 \in Nat, x3 \in Nat,
            f1 \in Nat, f2 \in Nat, f3 \in Nat, g \in Nat :
              Sums(a, d1, d2, d3, d4, x2, x3, f1, f2, f3, g)
  <1>1. a \in Nat /\ a < Weight[4]
    <2>1. PICK w \in Nat : w = Weight[4]
      BY WeightsGrow
    <2>2. PICK m \in Nat : m = MAX256 /\ m = w - 1
      BY <2>1, MaximaAre
    <2> QED
      BY <2>1, <2>2
  <1>2. PICK d1 \in 0 .. Byte - 1, d2 \in 0 .. Byte - 1, d3 \in 0 .. Byte - 1, d4 \in 0 .. Byte - 1,
             q2 \in Nat, q4 \in Nat : InDigits(a, d1, d2, d3, d4, q2, q4)
    BY <1>1, Digits
  <1>3. PICK b \in Nat \ {0} : b = Byte
    BY WeightsAre
  <1>4. PICK w1 \in Nat \ {0}, w2 \in Nat \ {0}, w3 \in Nat \ {0}, w4 \in Nat \ {0} :
          w1 = Weight[1] /\ w2 = Weight[2] /\ w3 = Weight[3] /\ w4 = Weight[4]
    BY WeightsGrow
  <1>5. w1 = b /\ w1 = 1 * b /\ w2 = w1 * b /\ w3 = w2 * b /\ w4 = w3 * b
    BY <1>3, <1>4, WeightsAre
  <1>6. AsF64(w1) = w1 /\ AsF64(w2) = w2 /\ AsF64(w3) = w3 /\ AsF64(w4) = w4
    BY <1>4, WeightsAreFloats DEF BYTE_LENGTH256
  <1>7. /\ d1 \in Nat /\ d2 \in Nat /\ d3 \in Nat /\ d4 \in Nat
        /\ d1 < b /\ d2 < b /\ d3 < b /\ d4 < b
    BY <1>3
  <1>8. PICK x2 \in Nat, x3 \in Nat : x2 = d1 + d2 * w1 /\ x3 = x2 + d3 * w2
    <2>1. PICK y \in Nat : y = d1 + d2 * w1
      BY <1>7
    <2> QED
      BY <1>7, <2>1
  <1>9. PICK p1 \in Nat, p2 \in Nat, p3 \in Nat, r4 \in Nat :
          p1 = d2 * w1 /\ p2 = d3 * w2 /\ p3 = d4 * w3 /\ r4 = q4 * w4
    BY <1>7
  <1>10. a = x3 + d4 * w3
    <2>1. a = d1 + p1 + p2 + p3 + r4
      BY <1>2, <1>4, <1>9 DEF InDigits
    <2>2. q4 = 0
      BY <1>1, <1>2 DEF InDigits
    <2>3. r4 = 0
      BY <1>9, <2>2
    <2> QED
      BY <1>7, <1>8, <1>9, <2>1, <2>3
  <1>11. PICK f1 \in Nat : f1 = AsF64(d1)
    BY <1>7, AsF64Nat
  <1>12. f1 <= w1 /\ d1 < w1
    <2>1. d1 <= w1
      BY <1>5, <1>7
    <2>2. AsF64(d1) <= AsF64(w1)
      BY <1>7, <2>1, AsF64Monotone
    <2> QED
      BY <1>5, <1>6, <1>7, <1>11, <2>2
  <1>13. d1 + d2 * w1 < w1 * b /\ AsF64(f1 + d2 * w1) <= w1 * b /\ AsF64(f1 + d2 * w1) \in Nat
    BY <1>5, <1>6, <1>7, <1>12, ByteAdded
  <1>14. PICK f2 \in Nat : f2 = AsF64(f1 + d2 * w1) /\ f2 <= w2 /\ x2 < w2
    BY <1>5, <1>8, <1>13
  <1>15. x2 + d3 * w2 < w2 * b /\ AsF64(f2 + d3 * w2) <= w2 * b /\ AsF64(f2 + d3 * w2) \in Nat
    BY <1>5, <1>6, <1>7, <1>14, ByteAdded
  <1>16. PICK f3 \in Nat : f3 = AsF64(f2 + d3 * w2) /\ f3 <= w3 /\ x3 < w3
    BY <1>5, <1>8, <1>15
  <1>17. AsF64(f3 + d4 * w3) <= w3 * b /\ AsF64(f3 + d4 * w3) \in Nat
    BY <1>5, <1>6, <1>7, <1>16, ByteAdded
  <1>18. PICK g \in Nat : g = AsF64(f3 + d4 * w3) /\ g <= w4
    BY <1>5, <1>17
  <1>19. g = ToF64Of256(a)
    <2>1. PICK bytes : bytes = LeBytes(a, 4)
      OBVIOUS
    <2>2. \A i \in 1 .. 4 : bytes[i] = Digit(a, i)
      <3>1. PICK L \in 1 .. 5 : L = 4
        OBVIOUS
      <3>2. \A i \in 1 .. L : LeBytes(a, L)[i] = Digit(a, i)
        BY <1>1, LeBytesAre
      <3> QED
        BY <2>1, <3>1, <3>2
    <2>3. bytes[1] = d1 /\ bytes[2] = d2 /\ bytes[3] = d3 /\ bytes[4] = d4
      BY <1>2, <2>2 DEF InDigits
    <2>4. ToF64Of256(a) = AsF64(AsF64(AsF64(AsF64(bytes[1]) + bytes[2] * Weight[1])
                                        + bytes[3] * Weight[2]) + bytes[4] * Weight[3])
      BY <2>1, Zenon DEF ToF64Of256, BYTE_LENGTH256
    <2> QED
      BY <1>4, <1>11, <1>14, <1>16, <1>18, <2>3, <2>4, Zenon
  <1>20. Sums(a, d1, d2, d3, d4, x2, x3, f1, f2, f3, g)
    BY <1>3, <1>4, <1>7, <1>8, <1>10, <1>11, <1>12, <1>14, <1>16, <1>18, <1>19 DEF Sums
  <1> QED
    BY <1>7, <1>20

\* Tokens256::to_f64 keeps the order, whatever the sums of the bytes lose.
LEMMA SumsInOrder ==
  ASSUME NEW a \in 0 .. MAX256, NEW b \in 0 .. MAX256, a <= b
  PROVE  ToF64Of256(a) <= ToF64Of256(b)
  <1>1. PICK d1 \in Nat, d2 \in Nat, d3 \in Nat, d4 \in Nat, x2 \in Nat, x3 \in Nat,
             f1 \in Nat, f2 \in Nat, f3 \in Nat, f4 \in Nat :
               Sums(a, d1, d2, d3, d4, x2, x3, f1, f2, f3, f4)
    BY SumsOfBytes
  <1>2. PICK e1 \in Nat, e2 \in Nat, e3 \in Nat, e4 \in Nat, y2 \in Nat, y3 \in Nat,
             g1 \in Nat, g2 \in Nat, g3 \in Nat, g4 \in Nat :
               Sums(b, e1, e2, e3, e4, y2, y3, g1, g2, g3, g4)
    BY SumsOfBytes
  <1>3. PICK w1 \in Nat \ {0}, w2 \in Nat \ {0}, w3 \in Nat \ {0} :
          w1 = Weight[1] /\ w2 = Weight[2] /\ w3 = Weight[3]
    BY WeightsGrow
  <1>4. /\ x2 = d1 + d2 * w1 /\ x3 = x2 + d3 * w2 /\ a = x3 + d4 * w3
        /\ d1 < w1 /\ x2 < w2 /\ x3 < w3 /\ f1 <= w1 /\ f2 <= w2 /\ f3 <= w3
        /\ f1 = AsF64(d1) /\ f2 = AsF64(f1 + d2 * w1) /\ f3 = AsF64(f2 + d3 * w2)
        /\ f4 = AsF64(f3 + d4 * w3) /\ f4 = ToF64Of256(a)
    BY <1>1, <1>3, Zenon DEF Sums
  <1>5. /\ y2 = e1 + e2 * w1 /\ y3 = y2 + e3 * w2 /\ b = y3 + e4 * w3
        /\ e1 < w1 /\ y2 < w2 /\ y3 < w3
        /\ g1 = AsF64(e1) /\ g2 = AsF64(g1 + e2 * w1) /\ g3 = AsF64(g2 + e3 * w2)
        /\ g4 = AsF64(g3 + e4 * w3) /\ g4 = ToF64Of256(b)
    BY <1>2, <1>3, Zenon DEF Sums
  <1>6. d1 <= e1 => f1 <= g1
    BY <1>4, <1>5, AsF64Monotone
  <1>7. x2 <= y2 => f2 <= g2
    <2> HAVE x2 <= y2
    <2>1. d1 + d2 * w1 <= e1 + e2 * w1
      BY <1>4, <1>5
    <2>2. AsF64(f1 + d2 * w1) <= AsF64(g1 + e2 * w1)
      BY <1>4, <1>5, <1>6, <2>1, ByteAddedInOrder
    <2> QED
      BY <1>4, <1>5, <2>2
  <1>8. x3 <= y3 => f3 <= g3
    <2> HAVE x3 <= y3
    <2>1. x2 + d3 * w2 <= y2 + e3 * w2
      BY <1>4, <1>5
    <2>2. AsF64(f2 + d3 * w2) <= AsF64(g2 + e3 * w2)
      BY <1>4, <1>5, <1>7, <2>1, ByteAddedInOrder
    <2> QED
      BY <1>4, <1>5, <2>2
  <1>9. x3 + d4 * w3 <= y3 + e4 * w3
    BY <1>4, <1>5
  <1>10. AsF64(f3 + d4 * w3) <= AsF64(g3 + e4 * w3)
    BY <1>4, <1>5, <1>8, <1>9, ByteAddedInOrder
  <1> QED
    BY <1>4, <1>5, <1>10

LEMMA FloatsAgree == TokensInv => FloatLaws
  <1> SUFFICES ASSUME TokensInv PROVE FloatLaws
    OBVIOUS
  <1>1. PICK m1 \in Nat, m2 \in Nat : m1 = MAX128 /\ m2 = MAX256
    BY MaximaAre
  <1>2. left \in 0 .. MAX256 /\ right \in 0 .. MAX256
    BY DEF TokensInv
  <1>3. PICK a \in Nat, b \in Nat : a = left /\ b = right /\ a <= m2 /\ b <= m2
    BY <1>1, <1>2
  <1>4. PICK w2 \in Nat \ {0}, w4 \in Nat \ {0}, w5 \in Nat \ {0} :
          w2 = Weight[2] /\ w4 = Weight[4] /\ w5 = Weight[5]
    BY WeightsGrow
  <1>5. m1 = w2 - 1 /\ m2 = w4 - 1 /\ w4 < w5
    <2>1. 2 * Weight[4] <= Weight[4 + 1]
      BY WeightsGrow
    <2>2. 4 + 1 = 5
      OBVIOUS
    <2> QED
      BY <1>1, <1>4, <2>1, <2>2, MaximaAre
  <1>6. PICK d1 \in Nat, d2 \in Nat, d3 \in Nat, d4 \in Nat, x2 \in Nat, x3 \in Nat,
             f1 \in Nat, f2 \in Nat, f3 \in Nat, g \in Nat :
               Sums(left, d1, d2, d3, d4, x2, x3, f1, f2, f3, g)
    BY <1>2, SumsOfBytes
  <1>7. g = ToF64Of256(left) /\ g <= w4
    BY <1>4, <1>6 DEF Sums
  <1>8. PICK f \in Nat : f = AsF64(left) /\ f = ToF64(left)
    BY <1>3, AsF64Nat DEF ToF64
  <1>9. f <= w4
    <2>1. AsF64(w4) = w4
      BY <1>4, WeightsAreFloats DEF BYTE_LENGTH256
    <2>2. a <= w4
      BY <1>3, <1>5
    <2>3. AsF64(a) <= AsF64(w4)
      BY <2>2, AsF64Monotone
    <2> QED
      BY <1>3, <1>8, <2>1, <2>3
  <1>10. left <= right => f <= ToF64(right) /\ g <= ToF64Of256(right)
    <2> HAVE left <= right
    <2>1. AsF64(left) <= AsF64(right)
      BY <1>3, AsF64Monotone
    <2>2. ToF64Of256(left) <= ToF64Of256(right)
      BY <1>2, SumsInOrder
    <2> QED
      BY <1>7, <1>8, <2>1, <2>2 DEF ToF64
  <1>11. ASSUME Ulp(left) = 1 PROVE f = left /\ g = left
    <2>1. Ulp(a) = 1
      BY <1>3, <1>11
    <2>2. \A n \in Nat : n <= a => AsF64(n) = n
      BY <2>1, ExactBelow
    <2>3. PICK w1 \in Nat, v2 \in Nat, w3 \in Nat : w1 = Weight[1] /\ v2 = Weight[2] /\ w3 = Weight[3]
      BY WeightsGrow
    <2>4. PICK p1 \in Nat, p2 \in Nat, p3 \in Nat : p1 = d2 * w1 /\ p2 = d3 * v2 /\ p3 = d4 * w3
      OBVIOUS
    <2>5. /\ x2 = d1 + p1 /\ x3 = x2 + p2 /\ a = x3 + p3
          /\ f1 = AsF64(d1) /\ f2 = AsF64(f1 + p1) /\ f3 = AsF64(f2 + p2) /\ g = AsF64(f3 + p3)
      BY <1>3, <1>6, <2>3, <2>4, Zenon DEF Sums
    <2>6. d1 <= a /\ x2 <= a /\ x3 <= a /\ a <= a
      BY <2>5
    <2>7. AsF64(d1) = d1 /\ AsF64(x2) = x2 /\ AsF64(x3) = x3 /\ AsF64(a) = a
      BY <2>2, <2>6
    <2>8. f1 = d1
      BY <2>5, <2>7
    <2>9. f2 = x2
      BY <2>5, <2>7, <2>8
    <2>10. f3 = x3
      BY <2>5, <2>7, <2>9
    <2> QED
      BY <1>3, <1>8, <2>5, <2>7, <2>10
  <1>12. ASSUME NEW n \in Nat, n <= w4
         PROVE  FromF64Of256(n) = IF n > MAX256 THEN NoTokens ELSE n
    <2>1. n < Weight[5] /\ ~ (n < 0)
      BY <1>4, <1>5, <1>12
    <2>2. PICK l \in {2, 4} : l = 4
      OBVIOUS
    <2>3. FromNat(n, l) = IF n < Weight[l] THEN n ELSE NoTokens
      BY <2>1, FromNatIs
    <2>4. FromF64Of256(n) = FromNat(n, l)
      BY <2>1, <2>2 DEF FromF64Of256, BYTE_LENGTH256
    <2> QED
      BY <1>1, <1>4, <1>5, <2>2, <2>3, <2>4
  <1>13. FromF64Of256(f) = IF f > MAX256 THEN NoTokens ELSE f
    BY <1>9, <1>12
  <1>14. FromF64Of256(g) = IF g > MAX256 THEN NoTokens ELSE g
    BY <1>7, <1>12
  <1>15. f # ToF64(MAX128) => FromF64(f) = IF f > MAX128 THEN NoTokens ELSE f
    <2> HAVE f # ToF64(MAX128)
    <2>1. PICK h \in Nat : h = AsF64(m1)
      BY AsF64Nat
    <2>2. f # h
      BY <1>1, <2>1 DEF ToF64
    <2>3. f > m1 <=> f > h
      <3>1. ASSUME f > m1 PROVE a > m1
        <4> SUFFICES ASSUME a <= m1 PROVE FALSE
          BY <1>3
        <4>1. AsF64(a) <= AsF64(m1)
          BY AsF64Monotone
        <4>2. AsF64(w2) = w2 /\ m1 <= w2
          BY <1>4, <1>5, WeightsAreFloats DEF BYTE_LENGTH256
        <4>3. h <= w2
          <5>1. AsF64(m1) <= AsF64(w2)
            BY <4>2, AsF64Monotone
          <5> QED
            BY <2>1, <4>2, <5>1
        <4> QED
          BY <1>3, <1>5, <1>8, <2>1, <2>2, <3>1, <4>1, <4>3
      <3>2. ASSUME f > m1 PROVE f > h
        <4>1. AsF64(m1) <= AsF64(a)
          BY <3>1, <3>2, AsF64Monotone
        <4> QED
          BY <1>3, <1>8, <2>1, <2>2, <4>1
      <3>3. ASSUME f <= m1 PROVE f <= h
        <4>1. AsF64(w2) = w2
          BY <1>4, WeightsAreFloats DEF BYTE_LENGTH256
        <4>2. ASSUME w2 <= a PROVE FALSE
          <5>1. AsF64(w2) <= AsF64(a)
            BY <4>2, AsF64Monotone
          <5> QED
            BY <1>3, <1>5, <1>8, <3>3, <4>1, <5>1
        <4>3. a <= m1
          BY <1>5, <4>2
        <4>4. AsF64(a) <= AsF64(m1)
          BY <4>3, AsF64Monotone
        <4> QED
          BY <1>3, <1>8, <2>1, <4>4
      <3> QED
        BY <3>2, <3>3
    <2>4. FromF64(f) = IF f > h THEN NoTokens ELSE Min({f, m1})
      BY <1>1, <2>1 DEF FromF64
    <2>5. f <= m1 => Min({f, m1}) = f
      BY DEF Min
    <2> QED
      BY <1>1, <2>3, <2>4, <2>5
  <1> QED
    BY <1>7, <1>8, <1>10, <1>11, <1>13, <1>14, <1>15, Zenon DEF FloatLaws

LEMMA ConversionsAgree == TokensInv => ConversionLaws
  <1> SUFFICES ASSUME TokensInv PROVE ConversionLaws
    OBVIOUS
  <1>1. PICK m1 \in Nat, m2 \in Nat : m1 = MAX128 /\ m2 = MAX256
    BY MaximaAre
  <1>2. left \in 0 .. MAX256 /\ right \in 0 .. MAX256
    BY DEF TokensInv
  <1>3. PICK a \in Nat, b \in Nat : a = left /\ b = right /\ a <= m2 /\ b <= m2
    BY <1>1, <1>2
  <1>4. PICK w1 \in Nat, w2 \in Nat, w4 \in Nat, w5 \in Nat :
          w1 = Weight[1] /\ w2 = Weight[2] /\ w4 = Weight[4] /\ w5 = Weight[5]
    BY WeightsGrow
  <1>5. m1 = w2 - 1 /\ m2 = w4 - 1 /\ 2 * w4 <= w5
    <2>1. 2 * Weight[4] <= Weight[4 + 1]
      BY WeightsGrow
    <2>2. 4 + 1 = 5
      OBVIOUS
    <2>3. 2 * w4 <= w5
      BY <1>4, <2>1, <2>2
    <2> QED
      BY <1>1, <1>4, <2>3, MaximaAre
  <1>6. ToNat256(left) = a
    BY <1>2, <1>3, ToNat256Is
  <1>7. ToTokens128(left) = IF a <= m1 THEN a ELSE NoTokens
    BY <1>1, <1>2, <1>3, ToTokens128Is
  <1>8. ASSUME NEW n \in Nat, n <= a + b
        PROVE  /\ FromNat(n, BYTE_LENGTH128) = IF n < w2 THEN n ELSE NoTokens
               /\ FromNat(n, BYTE_LENGTH256) = IF n < w4 THEN n ELSE NoTokens
    <2>1. n < Weight[5]
      BY <1>3, <1>4, <1>5, <1>8
    <2>2. PICK l2 \in {2, 4}, l4 \in {2, 4} : l2 = 2 /\ l4 = 4
      OBVIOUS
    <2>3. /\ FromNat(n, l2) = IF n < Weight[l2] THEN n ELSE NoTokens
          /\ FromNat(n, l4) = IF n < Weight[l4] THEN n ELSE NoTokens
      BY <2>1, FromNatIs
    <2> QED
      BY <1>4, <2>2, <2>3 DEF BYTE_LENGTH128, BYTE_LENGTH256
  <1>9. PICK s \in Nat : s = a + b
    OBVIOUS
  <1>10. /\ FromNat(a, BYTE_LENGTH128) = IF a < w2 THEN a ELSE NoTokens
         /\ FromNat(a, BYTE_LENGTH256) = IF a < w4 THEN a ELSE NoTokens
    BY <1>8
  <1>11. FromNat(s, BYTE_LENGTH256) = IF s < w4 THEN s ELSE NoTokens
    BY <1>8, <1>9
  <1>12. ToTokens128(left) = FromNat(ToNat256(left), BYTE_LENGTH128)
    BY <1>5, <1>6, <1>7, <1>10
  <1>13. ToTokens128(left) = NoTokens <=> left > MAX128
    BY <1>1, <1>3, <1>7 DEF NoTokens
  <1>14. FromNat(ToNat256(left), BYTE_LENGTH256) = left
    BY <1>3, <1>5, <1>6, <1>10
  <1>15. FromNat(left + right, BYTE_LENGTH256) = Add256(left, right)
    BY <1>1, <1>3, <1>5, <1>9, <1>11 DEF Add256
  <1>16. ASSUME left <= MAX128 PROVE ToTokens128(left) = left
    BY <1>1, <1>3, <1>7, <1>16
  <1> QED
    BY <1>12, <1>13, <1>14, <1>15, <1>16 DEF ConversionLaws

LEMMA ArithmeticIsExact == TokensInv => ArithmeticLaws
  <1> SUFFICES ASSUME TokensInv PROVE ArithmeticLaws
    OBVIOUS
  <1>1. PICK m1 \in Nat, m2 \in Nat : m1 = MAX128 /\ m2 = MAX256
    BY MaximaAre
  <1>2. PICK a \in Nat, b \in Nat : a = left /\ b = right /\ a <= m2 /\ b <= m2
    BY <1>1 DEF TokensInv
  <1>3. PICK l \in Nat, r \in Nat : l = left % (MAX128 + 1) /\ r = right % (MAX128 + 1) /\ l <= m1 /\ r <= m1
    <2>1. PICK c \in Nat \ {0} : c = m1 + 1
      OBVIOUS
    <2>2. a % c \in 0 .. c - 1 /\ b % c \in 0 .. c - 1
      BY Remainder
    <2>3. a % c \in Nat /\ a % c <= m1 /\ b % c \in Nat /\ b % c <= m1
      BY <2>1, <2>2
    <2> QED
      BY <1>1, <1>2, <2>1, <2>3
  <1>4. l \in 0 .. MAX128 /\ r \in 0 .. MAX128
    BY <1>1, <1>3
  <1>5. 2 * m1 <= m2
    <2>1. PICK w2 \in Nat \ {0}, w3 \in Nat, w4 \in Nat : w2 = Weight[2] /\ w3 = Weight[3] /\ w4 = Weight[4]
      BY WeightsGrow
    <2>2. 2 * w2 <= w3 /\ 2 * w3 <= w4
      <3>1. 2 * Weight[2] <= Weight[2 + 1] /\ 2 * Weight[3] <= Weight[3 + 1]
        BY WeightsGrow
      <3>2. 2 + 1 = 3 /\ 3 + 1 = 4
        OBVIOUS
      <3> QED
        BY <2>1, <3>1, <3>2
    <2>3. m1 = w2 - 1 /\ m2 = w4 - 1
      BY <1>1, <2>1, MaximaAre
    <2> QED
      BY <2>2, <2>3
  <1>10. (right # 0 /\ Mul256(left, right) # NoTokens) => Div256(Mul256(left, right), right) = left
    <2> SUFFICES ASSUME b # 0, Mul256(left, right) # NoTokens PROVE Div256(Mul256(left, right), right) = left
      BY <1>2
    <2>1. (a * b) \div b = a
      BY ExactQuotient
    <2>2. Mul256(left, right) = a * b
      BY <1>2 DEF Mul256
    <2> QED
      BY <1>2, <2>1, <2>2, Zenon DEF Div256
  <1>11. Mul128(l, r) = l * r /\ Mul128(l, l) = l * l
    <2>1. l * r \in 0 .. MAX256 /\ l * l \in 0 .. MAX256
      BY <1>4, ProductFits
    <2>2. l * r <= m2 /\ l * l <= m2 /\ l * r \in Nat /\ l * l \in Nat
      BY <1>1, <2>1
    <2> QED
      BY <1>1, <2>2 DEF Mul128
  <1>12. r # 0 => Div256(Mul128(l, r), r) = l
    <2> HAVE r # 0
    <2>1. (l * r) \div r = l
      BY ExactQuotient
    <2> QED
      BY <1>11, <2>1, Zenon DEF Div256
  <1>13. Sqrt(Mul128(l, l)) = l
    BY <1>4, <1>11, SqrtIs
  <1>14. SaturatingAdd128(SaturatingSub128(l, r), r) = Max({l, r})
    <2>1. l - r \in Int /\ 0 \in Int
      OBVIOUS
    <2>2. ASSUME NEW x \in Int, NEW y \in Int PROVE Max({x, y}) = IF x >= y THEN x ELSE y
      BY DEF Max
    <2>3. SaturatingSub128(l, r) = IF 0 >= l - r THEN 0 ELSE l - r
      BY <2>1, <2>2 DEF SaturatingSub128
    <2>4. Max({l, r}) = IF l >= r THEN l ELSE r
      BY <2>2
    <2> QED
      BY <1>1, <1>3, <2>3, <2>4 DEF SaturatingAdd128, Add128, NoTokens
  <1>15. Add128(l, r) = ToTokens128(Add256(l, r))
    <2>1. PICK s \in Nat : s = l + r
      OBVIOUS
    <2>2. Add256(l, r) = s /\ s \in 0 .. MAX256
      BY <1>1, <1>3, <1>5, <2>1 DEF Add256
    <2>3. ToTokens128(s) = IF s <= MAX128 THEN s ELSE NoTokens
      BY <2>2, ToTokens128Is
    <2> QED
      BY <1>1, <2>1, <2>2, <2>3 DEF Add128, NoTokens
  <1> QED
    BY <1>3, <1>10, <1>12, <1>13, <1>14, <1>15, Zenon DEF ArithmeticLaws

LEMMA TokensInvInit == TokensInit => TokensInv
  BY MaximaAre DEF TokensInit, TokensInv

LEMMA TokensInvNext == TokensInv /\ [TokensNext]_tokensVars => TokensInv'
  <1> SUFFICES ASSUME TokensInv, [TokensNext]_tokensVars PROVE TokensInv'
    OBVIOUS
  <1>1. PICK m \in Nat : m = MAX256
    BY MaximaAre
  <1> QED
    BY <1>1 DEF TokensInv, TokensNext, NextOperands, tokensVars

-----------------------------------------------------------------------------
(* The libraries together *)

\* The inductive invariants of the libraries.
LibrariesInv ==
  /\ BackoffInv /\ MetricsInv /\ AuctionInv /\ MockInv /\ WatchInv /\ StateTypeOK
  /\ CallsInv /\ CallsTypeOK /\ StorageInv /\ MacrosInv /\ MacrosTypeOK /\ TokensInv /\ LogInv

LEMMA LibrariesInvInit == LibrariesInit => LibrariesInv
  <1> SUFFICES ASSUME LibrariesInit PROVE LibrariesInv
    OBVIOUS
  <1>1. /\ BackoffInit /\ MetricsInit /\ AuctionInit /\ MockInit /\ StateInit /\ CallsInit
        /\ StorageInit /\ MacrosInit /\ TokensInit /\ LogInit
    BY DEF LibrariesInit
  <1>2. /\ BackoffInv /\ MetricsInv /\ AuctionInv /\ MockInv /\ CallsInv /\ StorageInv /\ MacrosInv
        /\ TokensInv /\ LogInv
    BY <1>1, BackoffInvInit, MetricsInvInit, AuctionInvInit, MockInvInit, CallsInvInit,
       StorageInvInit, MacrosInvInit, TokensInvInit, LogInvInit
  <1>3. WatchInv
    BY <1>1 DEF StateInit, NoStorage, NoBorrow, WatchInv, ModificationsAreWatched, Seen
  <1>4. StateTypeOK
    BY <1>1 DEF StateInit, NoStorage, NoBorrow, StateTypeOK
  <1>5. CallsTypeOK
    <2>1. store = {} /\ open = << >>
      BY <1>1 DEF CallsInit
    <2> QED
      BY <1>2, <2>1, CallsAssumption DEF CallsInv, CallsTypeOK
  <1>6. MacrosTypeOK
    <2>1. idls = << >>
      BY <1>1 DEF MacrosInit
    <2> QED
      BY <1>2, <2>1, MacrosAssumption DEF MacrosInv, MethodsInv, ExportsInv, Initials, MacrosTypeOK
  <1> QED
    BY <1>2, <1>3, <1>4, <1>5, <1>6 DEF LibrariesInv

\* A step is one of the library under test; the others stay as they are.
LEMMA LibrariesInvNext == LibrariesInv /\ [LibrariesNext]_libraryVars => LibrariesInv'
  <1> SUFFICES ASSUME LibrariesInv, [LibrariesNext]_libraryVars PROVE LibrariesInv'
    OBVIOUS
  <1>1. /\ [BackoffNext]_backoffVars
        /\ [MetricsNext]_metricsVars /\ [AuctionNext]_auctionVars /\ [MockNext]_mockVars
        /\ [StateNext]_stateVars /\ [CallsNext]_callVars /\ [StorageNext]_storageVars
        /\ [MacrosNext]_macroVars /\ [TokensNext]_tokensVars /\ [LogNext]_logVars
    BY DEF LibrariesNext, OthersThan, libraryVars
  <1> QED
    BY <1>1, BackoffInvNext, MetricsInvNext, AuctionInvNext, MockInvNext, WatchedNext, StateTypesNext, CallsInvNext,
       CallTypesNext, StorageInvNext, MacrosInvNext, MacroTypesNext, TokensInvNext, LogInvNext DEF LibrariesInv

\* The state of the library under test has its type.
THEOREM LibrariesTypes == LibrariesSpec => []LibrariesTypeOK
  <1>1. LibrariesInv => LibrariesTypeOK
    <2>1. MetricsInv => MetricsTypeOK
      BY DEF MetricsInv
    <2>2. AuctionInv => AuctionTypeOK
      BY AuctionInvTypes
    <2>3. StorageInv => StorageTypeOK
      BY StorageInvTypes
    <2> QED
      BY <2>1, <2>2, <2>3, MockTypes, LogInvTypes DEF LibrariesInv, LibrariesTypeOK
  <1> QED
    BY <1>1, LibrariesInvInit, LibrariesInvNext, PTL DEF LibrariesSpec

\* What a Watcher tells a test is what happened: the recorded calls explain the
\* cycles but for those of calls that panicked, none is refunded more than it
\* was sent unless a closure sets the cycles, and no write to the storage is
\* missing but one through an older reference (mock.rs, Watcher, WatcherCall).
THEOREM WatchersAreTruthful == LibrariesSpec => []WatcherIsTruthful
  <1>1. LibrariesInv => WatcherIsTruthful
    BY DEF LibrariesInv, MockInv, WatchInv, WatcherIsTruthful
  <1> QED
    BY <1>1, LibrariesInvInit, LibrariesInvNext, PTL DEF LibrariesSpec

(***************************************************************************)
(* For every strategy and any number of failures, the delay that           *)
(* should_wait computes from the number of failures is the one the         *)
(* comments of BackoffPolicy describe step by step, and a failing          *)
(* operation gets exactly the retries of its policy.                       *)
(***************************************************************************)
THEOREM SchedulesAreAsDocumented == LibrariesSpec => []ScheduleAsDocumented
  <1>1. LibrariesInv => ScheduleAsDocumented
    BY DEF LibrariesInv, BackoffInv
  <1> QED
    BY <1>1, LibrariesInvInit, LibrariesInvNext, PTL DEF LibrariesSpec

(***************************************************************************)
(* Whatever a byte and the mantissa of a float can hold, Tokens128 and     *)
(* Tokens256 compute what the integers do, or None, the ways from one type *)
(* to another, through bytes, limbs and Nat, agree, and the ways to f64    *)
(* and back keep the order and refuse what is above the maximum, except    *)
(* for the float to which u128::MAX is cast.                               *)
(***************************************************************************)
THEOREM TokensComputeAsIntegers == LibrariesSpec => []TokenArithmetic
  <1>1. LibrariesInv => TokenArithmetic
    BY ArithmeticIsExact, ConversionsAgree, FloatsAgree DEF LibrariesInv, TokenArithmetic
  <1> QED
    BY <1>1, LibrariesInvInit, LibrariesInvNext, PTL DEF LibrariesSpec
=============================================================================
