------------------------------ MODULE MockState ------------------------------
(***************************************************************************)
(* The state a canister keeps in the mock context of ic-kit: values by     *)
(* type, the stable storage, the certified data, the caller of the         *)
(* message, and the watcher that tells a test what was used                *)
(* (ic-kit/src/mock.rs, ic.rs and inject.rs).                              *)
(***************************************************************************)
EXTENDS Integers, Sequences, FiniteSets

CONSTANTS
  Types,        \* types of stored values
  Data,         \* values of these types; DefaultData is among them
  DefaultData,  \* T::default()
  Callers,      \* principals that send messages
  Anonymous,    \* Principal::anonymous()
  Getters,      \* operations that only raise their flag: id, time, balance...
  CertBytes,    \* certified data, as sequences of bytes
  CertLen,      \* the longest certified data (32 bytes in the code)
  MaxFlags,     \* bound: flags raised under one watcher
  Empty         \* None

VARIABLES
  injected,          \* the thread has a context
  storage,           \* MockContext::storage, a value or Empty for each type
  stable,            \* MockContext::stable, the encoded values or << >>
  certified,         \* MockContext::certified_data
  certificate,       \* MockContext::certificate
  sender,            \* MockContext::caller
  in_reply,          \* MockContext::is_reply_callback_mode
  trapped,           \* MockContext::trapped
  flags,             \* the called_ flags of the watcher
  storage_modified,  \* Watcher::storage_modified
  borrowed,          \* for each type, whether a reference of get_mut is held:
                     \* "none", "held", or "early", from before watch()
  seenAtWatch        \* ghost: the values a reader saw when watch() was called

stateVars == << injected, storage, stable, certified, certificate, sender,
                in_reply, trapped, flags, storage_modified, borrowed, seenAtWatch >>

\* What get::<T>() shows of a storage.
Seen(s) == [t \in Types |-> IF s[t] = Empty THEN DefaultData ELSE s[t]]

NoStorage == [t \in Types |-> Empty]
NoBorrow == [t \in Types |-> "none"]

\* The data padded with zeros, which is what the chain of hashes covers.
Sign(data) == [i \in 1 .. CertLen |-> IF i <= Len(data) THEN data[i] ELSE 0]

ASSUME StateAssumption ==
  /\ DefaultData \in Data /\ CertLen \in Nat
  /\ Empty \notin CertBytes /\ \A data \in CertBytes : Sign(data) # Empty

\* MockContext::new with the builders that are applied before inject().
NewState(s, saved, cert, who) ==
  /\ storage' = s /\ stable' = saved
  /\ certified' = cert
  /\ certificate' = IF cert = Empty THEN Empty ELSE Sign(cert)
  /\ sender' = who
  /\ in_reply' = FALSE /\ trapped' = FALSE
  /\ flags' = IF saved = << >> THEN {} ELSE {"stable_store"}
  /\ storage_modified' = {} /\ borrowed' = NoBorrow
  /\ seenAtWatch' = Seen(s)

StateInit ==
  /\ injected = FALSE
  /\ storage = NoStorage /\ stable = << >>
  /\ certified = Empty /\ certificate = Empty
  /\ sender = Anonymous
  /\ in_reply = FALSE /\ trapped = FALSE
  /\ flags = {} /\ storage_modified = {} /\ borrowed = NoBorrow
  /\ seenAtWatch = Seen(NoStorage)

\* inject() of a context made with with_data, with_stable,
\* with_certified_data (which refuses 32 bytes) and with_caller.  It replaces
\* the context of the thread.
Inject ==
  /\ \E t \in Types, d \in Data \cup {Empty}, saved \in Data \cup {Empty},
        cert \in CertBytes \cup {Empty}, who \in Callers \cup {Anonymous} :
       /\ cert # Empty => Len(cert) < CertLen
       /\ NewState([NoStorage EXCEPT ![t] = d],
                   IF saved = Empty THEN << >> ELSE << t, saved >>, cert, who)
  /\ injected' = TRUE

\* An operation of the context in the thread raises flags.
Uses(raised) ==
  /\ injected /\ UNCHANGED injected
  /\ flags' = flags \cup raised
  /\ Cardinality(flags') <= MaxFlags

----------------------------------------------------------------------------
\* id, time, balance and the cycles of the message.
Get(getter) ==
  /\ Uses({getter})
  /\ UNCHANGED << storage, stable, certified, certificate, sender, in_reply,
                  trapped, storage_modified, borrowed, seenAtWatch >>

\* caller(), outside of the reply callback: in it, the call panics after it
\* has asked for the id.
Caller ==
  /\ Uses(IF in_reply THEN {"caller", "id"} ELSE {"caller"})
  /\ UNCHANGED << storage, stable, certified, certificate, sender, in_reply,
                  trapped, storage_modified, borrowed, seenAtWatch >>

Trap ==
  /\ trapped' = TRUE
  /\ Uses({})
  /\ UNCHANGED << storage, stable, certified, certificate, sender, in_reply,
                  storage_modified, borrowed, seenAtWatch >>

\* What a call to another canister does to the message that makes it: also
\* when no handler accepts the call.
CallOut ==
  /\ in_reply' = TRUE
  /\ Uses({})
  /\ UNCHANGED << storage, stable, certified, certificate, sender, trapped,
                  storage_modified, borrowed, seenAtWatch >>

CallStateReset ==
  /\ in_reply' = FALSE /\ trapped' = FALSE
  /\ Uses({})
  /\ UNCHANGED << storage, stable, certified, certificate, sender,
                  storage_modified, borrowed, seenAtWatch >>

UpdateCaller(who) ==
  /\ sender' = who
  /\ Uses({})
  /\ UNCHANGED << storage, stable, certified, certificate, in_reply, trapped,
                  storage_modified, borrowed, seenAtWatch >>

----------------------------------------------------------------------------
(***************************************************************************)
(* Values by type.                                                         *)
(***************************************************************************)
Storage(t, d, modified, lent) ==
  /\ Uses({})
  /\ storage' = [storage EXCEPT ![t] = d]
  /\ storage_modified' = storage_modified \cup modified
  /\ borrowed' = [borrowed EXCEPT ![t] = lent]
  /\ UNCHANGED << stable, certified, certificate, sender, in_reply, trapped, seenAtWatch >>

\* The value a reference was taken to is dropped.
Store(t, d) == Storage(t, d, {t}, "none")

\* MockContext::get puts the default there and does not tell the watcher.
GetRef(t) == Storage(t, Seen(storage)[t], {}, borrowed[t])

\* Mutant: a reference that can be written through is not noted.
GetMutUnwatched(t, d) == Storage(t, d, {}, "held")

\* get_mut, with what the caller writes through the reference at once; ic::get
\* also goes this way.
GetMut(t, d) == Storage(t, d, {t}, "held")

\* The reference is written through later: the watcher is not told again.
WriteBorrowed(t, d) ==
  /\ borrowed[t] # "none"
  /\ Storage(t, d, {}, borrowed[t])

Delete(t) == Storage(t, Empty, {t}, "none")

\* clear_storage is the test's own: the watcher is not told.
ClearStorage ==
  /\ Uses({})
  /\ storage' = NoStorage /\ borrowed' = NoBorrow
  /\ seenAtWatch' = [t \in Types |-> IF t \in storage_modified THEN seenAtWatch[t]
                                     ELSE DefaultData]
  /\ UNCHANGED << stable, certified, certificate, sender, in_reply, trapped,
                  storage_modified >>

\* stable_store: with an encoding error the old bytes stay.
StableStore(t, d, encodes) ==
  /\ Uses({"stable_store"})
  /\ stable' = IF encodes THEN << t, d >> ELSE stable
  /\ UNCHANGED << storage, certified, certificate, sender, in_reply, trapped,
                  storage_modified, borrowed, seenAtWatch >>

\* stable_restore::<(T,)>, an error when nothing or another type is stored.
StableRestore ==
  /\ Uses({"stable_restore"})
  /\ UNCHANGED << storage, stable, certified, certificate, sender, in_reply,
                  trapped, storage_modified, borrowed, seenAtWatch >>

SetCertifiedData(data) ==
  /\ Len(data) <= CertLen
  /\ Uses({"set_certified_data"})
  /\ certified' = data /\ certificate' = Sign(data)
  /\ UNCHANGED << storage, stable, sender, in_reply, trapped, storage_modified, borrowed, seenAtWatch >>

DataCertificate ==
  /\ Uses({"data_certificate"})
  /\ UNCHANGED << storage, stable, certified, certificate, sender, in_reply,
                  trapped, storage_modified, borrowed, seenAtWatch >>

\* Watcher::default, a new watcher.
WatchState ==
  /\ injected /\ UNCHANGED injected
  /\ flags' = {} /\ storage_modified' = {}
  /\ borrowed' = [t \in Types |-> IF borrowed[t] = "none" THEN "none" ELSE "early"]
  /\ seenAtWatch' = Seen(storage)
  /\ UNCHANGED << storage, stable, certified, certificate, sender, in_reply, trapped >>

StateNext ==
  \/ Inject \/ Caller \/ Trap \/ CallOut \/ CallStateReset \/ WatchState
  \/ \E g \in Getters : Get(g)
  \/ \E who \in Callers : UpdateCaller(who)
  \/ \E t \in Types :
       \/ GetRef(t) \/ Delete(t)
       \/ \E d \in Data :
            \/ Store(t, d) \/ GetMut(t, d) \/ WriteBorrowed(t, d)
            \/ \E encodes \in BOOLEAN : StableStore(t, d, encodes)
  \/ ClearStorage \/ StableRestore \/ DataCertificate
  \/ \E data \in CertBytes : SetCertifiedData(data)

StateSpec == StateInit /\ [][StateNext]_stateVars

----------------------------------------------------------------------------
\* Every field of the context has its type, and the certificate is there with
\* the data it covers.
StateTypeOK ==
  /\ storage \in [Types -> Data \cup {Empty}]
  /\ stable = << >> \/ stable \in Types \X Data
  /\ (certificate = Empty) = (certified = Empty)
  /\ sender \in Callers \cup {Anonymous}
  /\ {in_reply, trapped, injected} \subseteq BOOLEAN
  /\ storage_modified \subseteq Types
  /\ borrowed \in [Types -> {"none", "held", "early"}]

\* A value that reads differently than when watch() was called is one that
\* is_modified() reports, unless it was written through a reference taken
\* before: is_modified() is about the calls of store, get_mut and delete since
\* watch() (mock.rs, Watcher::is_modified).  get() may insert a default value
\* unseen and clear_storage() is not watched.
ModificationsAreWatched ==
  \A t \in Types : Seen(storage)[t] # seenAtWatch[t] =>
                     t \in storage_modified \/ borrowed[t] = "early"
=============================================================================
