---------------------------- MODULE LogCanister ----------------------------
(***************************************************************************)
(* The log of a canister (ic-log): InMemoryWriter keeps the latest records *)
(* in a ring on the heap, numbered since the canister started; LogState    *)
(* keeps the settings and the access list in stable memory and is the only *)
(* way to change them.  Every method is one message.                       *)
(*                                                                         *)
(* A record is its number, so that a page can be compared with what was    *)
(* logged.  Text, formatting, the console and the cut at max_record_length *)
(* are left out.  A filter is the level up to which records are written.   *)
(* A call that returns an error (not allowed, not initialized) or that     *)
(* traps changes nothing, and is a step of no action.                      *)
(***************************************************************************)
EXTENDS Naturals, Sequences

CONSTANTS
  Principal,
  Creator,        \* the caller of the canister's init
  Capacities,     \* in_memory_records, of the settings and of its setter
  Usize,          \* 2^32, the modulus of usize arithmetic in a canister
  None,           \* the None of Option<T>, and memory never written
  Invalid,        \* a filter that cannot be parsed
  MaxRecords      \* bound: records logged by one run of the canister

ASSUME CreatorAssumption == Creator \in Principal
ASSUME UsizeAssumption == Usize \in Nat /\ MaxRecords \in Nat /\ MaxRecords < Usize
\* The settings and the setter take any number.
ASSUME CapacitiesAssumption == Capacities \subseteq Nat
ASSUME FilterAssumption == {None, Invalid} \cap Nat = {} /\ None # Invalid

VARIABLES
  records,      \* heap: LOG_RECORDS, with the count of records logged
  enabled,      \* heap: IS_ENABLED
  config,       \* heap: LogState.logger_config, which is its filter
  attached,     \* heap: is LogState.settings Some?
  cell,         \* stable memory: StorableLogSettings
  since         \* history: the count when a capacity change last left the ring
                \* with room for records that were dropped, or 0

logVars == << records, enabled, config, attached, cell, since >>

Error == 1
Info == 2
Filter == 0 .. Info       \* 0 is "off"
Level == {Error, Info}

ReadPermission == "Read"
ConfigurePermission == "Configure"
LoggerAcl == SUBSET (Principal \X {ReadPermission, ConfigurePermission})

StorableLogSettings == [in_memory_records : Nat, log_filter : Filter, acl : LoggerAcl]

ASSUME NoneAssumption == None \notin StorableLogSettings

\* StorableLogSettings::default(), with the default of LogSettingsV2
DefaultRecords == 1024
DefaultSettings == [in_memory_records |-> DefaultRecords, log_filter |-> Info, acl |-> {}]

-----------------------------------------------------------------------------
(* InMemoryWriter *)

SaturatingSub(a, b) == IF a >= b THEN a - b ELSE 0

\* AllocRingBuffer: a full one drops its oldest element.
Push(r, x) == [r EXCEPT !.ring =
  Append(IF Len(@) = r.capacity THEN Tail(@) ELSE @, x)]

EmptyBuffer(count, capacity) == [count |-> count, ring |-> << >>, capacity |-> capacity]

\* Disabled, the buffer has place for one record that never comes.
NewBuffer(count, capacity) == EmptyBuffer(count, IF capacity > 0 THEN capacity ELSE 1)

\* init_buffer
InitBuffer(capacity) ==
  /\ records' = NewBuffer(0, capacity)
  /\ enabled' = (capacity > 0)
  /\ since' = 0

\* Mutant: the records that were dropped are not taken into account.
FirstIndexUnreduced(r, from_offset) ==
  IF from_offset + Len(r.ring) < r.count THEN 0 ELSE from_offset % r.capacity

\* The index in the ring at which a page from this offset starts; the
\* subtraction wraps around.
FirstIndex(r, from_offset) ==
  LET len == Len(r.ring)
      offset == CASE from_offset + len < r.count -> 0
                  [] from_offset + len >= r.count /\ r.count > len ->
                       (Usize + from_offset - (r.count % r.capacity)) % Usize
                  [] OTHER -> from_offset
  IN offset % r.capacity

\* What is left of the ring from this index, but at most max_count records
PageLength(r, max_count, first) ==
  LET left == SaturatingSub(Len(r.ring), first)
  IN IF max_count <= left THEN max_count ELSE left

\* Mutant: the records of a page are numbered from the offset asked for.
PageFromRequest(r, max_count, from_offset) ==
  LET first == FirstIndex(r, from_offset)
  IN [i \in 1 .. PageLength(r, max_count, first) |->
        [log |-> r.ring[first + i], offset |-> from_offset + i - 1]]

\* The records from there, each with its number
Page(r, max_count, from_offset) ==
  LET first == FirstIndex(r, from_offset)
  IN [i \in 1 .. PageLength(r, max_count, first) |->
        [log |-> r.ring[first + i],
         offset |-> r.count + first - Len(r.ring) + i - 1]]

\* take_records, without the count
TakeRecords(max_count, from_offset) ==
  IF ~ enabled \/ from_offset >= records.count THEN << >>
  ELSE Page(records, max_count, from_offset)

\* The ring is full or has every record: nothing was dropped before a capacity
\* change that left room for it, or the ring has been filled anew since.
Whole == since = 0 \/ records.count >= since + records.capacity

\* Is it still so with another capacity?
StaysWhole(capacity) ==
  /\ enabled /\ Whole
  /\ capacity \in 1 .. records.capacity \/ records.count <= records.capacity

\* change_capacity: the latest records move to a new ring.
ChangeCapacity(capacity) ==
  /\ records' =
       IF capacity = 0 THEN NewBuffer(records.count, 0)
       ELSE LET page == TakeRecords(capacity, SaturatingSub(records.count, capacity))
            IN [NewBuffer(records.count, capacity) EXCEPT
                  !.ring = [i \in DOMAIN page |-> page[i].log]]
  /\ enabled' = (capacity > 0)
  /\ since' = IF StaysWhole(capacity) THEN since ELSE records.count

\* print, for a record that the filter has let through
Printed == IF enabled
           THEN [Push(records, records.count) EXCEPT !.count = @ + 1]
           ELSE records

-----------------------------------------------------------------------------
(* LogState *)

\* Mutant: whoever may read may also configure.
CheckPermissionAny(caller, permission) ==
  attached /\ \E p \in {ReadPermission, ConfigurePermission} : << caller, p >> \in cell.acl

\* Configure includes Read.
CheckPermission(caller, permission) ==
  /\ attached
  /\ \/ << caller, permission >> \in cell.acl
     \/ permission = ReadPermission /\ << caller, ConfigurePermission >> \in cell.acl

LogInit ==
  /\ records = EmptyBuffer(0, 128)   \* INIT_LOG_CAPACITY
  /\ enabled = FALSE
  /\ config = None
  /\ attached = FALSE
  /\ cell = None
  /\ since = 0

\* Builder::build and try_init: the global logger and the LoggerConfig share
\* one filter.
TryInit(filter) == config' = filter

\* init_log: the filter, which must be valid, and an empty buffer
InitLog(in_memory_records, filter) ==
  /\ filter # Invalid
  /\ TryInit(filter)
  /\ InitBuffer(in_memory_records)

\* init(), from the canister's init: the stable memory is still empty.
InitState(caller, in_memory_records, filter, acl) ==
  /\ config = None /\ ~ attached
  /\ InitLog(in_memory_records, filter)
  /\ attached' = TRUE
  /\ cell' = [in_memory_records |-> in_memory_records, log_filter |-> filter,
              acl |-> IF acl = None THEN {<< caller, ConfigurePermission >>} ELSE acl]

\* LoggerConfig::update_filters
UpdateFilters(filter) == config # None /\ filter # Invalid /\ config' = filter

\* Logger::matches
Matches(level, filter) == level <= filter

\* Mutant: the settings are stored before the filter is parsed.
SetLoggerFilterStoreFirst(caller, filter) ==
  /\ CheckPermission(caller, ConfigurePermission)
  /\ cell' = [cell EXCEPT !.log_filter = filter]
  /\ config' = IF filter = Invalid THEN config ELSE filter
  /\ UNCHANGED << records, enabled, attached, since >>

\* set_logger_filter reports the new filter in the log itself.
SetLoggerFilter(caller, filter) ==
  /\ CheckPermission(caller, ConfigurePermission)
  /\ UpdateFilters(filter)
  /\ cell' = [cell EXCEPT !.log_filter = filter]
  /\ Matches(Info, filter) => records.count < MaxRecords
  /\ records' = IF Matches(Info, filter) THEN Printed ELSE records
  /\ UNCHANGED << enabled, attached, since >>

SetInMemoryRecords(caller, count) ==
  /\ CheckPermission(caller, ConfigurePermission)
  /\ ChangeCapacity(count)
  /\ cell' = [cell EXCEPT !.in_memory_records = count]
  /\ UNCHANGED << config, attached >>

AddPermission(caller, to, permission) ==
  /\ CheckPermission(caller, ConfigurePermission)
  /\ cell' = [cell EXCEPT !.acl = @ \cup {<< to, permission >>}]
  /\ UNCHANGED << records, enabled, config, attached, since >>

RemovePermission(caller, from, permission) ==
  /\ CheckPermission(caller, ConfigurePermission)
  /\ cell' = [cell EXCEPT !.acl = @ \ {<< from, permission >>}]
  /\ UNCHANGED << records, enabled, config, attached, since >>

\* Logger::log
Log(level) ==
  /\ config # None /\ Matches(level, config)
  /\ records.count < MaxRecords
  /\ records' = Printed
  /\ UNCHANGED << enabled, config, attached, cell, since >>

\* Mutant: after an upgrade the logger has the default settings.
ReloadDefault ==
  /\ cell' = IF cell = None THEN DefaultSettings ELSE cell
  /\ config' = DefaultSettings.log_filter
  /\ InitBuffer(DefaultSettings.in_memory_records)

\* An upgrade, with reload() in post_upgrade.  Without settings in stable
\* memory, or without anybody in the access list, reload fails; unless the
\* canister fails with it, the defaults have been stored by then.
Reload ==
  LET settings == IF cell = None THEN DefaultSettings ELSE cell
  IN /\ cell' = settings
     /\ IF settings.acl = {}
        THEN /\ config' = None
             /\ records' = EmptyBuffer(0, 128)
             /\ enabled' = FALSE
             /\ since' = 0
        ELSE InitLog(settings.in_memory_records, settings.log_filter)

Upgrade == Reload /\ attached' = TRUE

\* An update method of LogCanister, which traps unless it succeeds or the
\* filter is invalid
UpdateMethod(caller) ==
  \/ \E f \in Filter \cup {Invalid} : SetLoggerFilter(caller, f)
  \/ \E n \in Capacities : SetInMemoryRecords(caller, n)
  \/ \E p \in Principal, permission \in {ReadPermission, ConfigurePermission} :
       \/ AddPermission(caller, p, permission)
       \/ RemovePermission(caller, p, permission)

LogNext ==
  \/ \E n \in Capacities, f \in Filter \cup {Invalid}, acl \in LoggerAcl \cup {None} :
       InitState(Creator, n, f, acl)
  \/ \E caller \in Principal : UpdateMethod(caller)
  \/ \E level \in Level : Log(level)
  \/ Upgrade

LogSpec == LogInit /\ [][LogNext]_logVars

-----------------------------------------------------------------------------
(* Properties *)

LogTypeOK ==
  /\ records.count \in 0 .. MaxRecords
  /\ records.capacity \in Nat \ {0}
  /\ records.ring \in Seq(0 .. MaxRecords)
  /\ Len(records.ring) <= records.capacity
  /\ Len(records.ring) <= records.count
  /\ enabled \in BOOLEAN
  /\ config \in Filter \cup {None}
  /\ attached \in BOOLEAN
  /\ cell \in StorableLogSettings \cup {None}
  /\ since \in 0 .. MaxRecords

Offsets == 0 .. MaxRecords

\* A record bears its own number in every page, whatever was evicted, moved to
\* a ring of another capacity or missed during a pause: take_records computes
\* the number from the count, the length of the ring and the place in it.  Only
\* records older than a capacity change that left room for dropped ones may be
\* misnumbered, and then under numbers as old.
IdsAreAbsolute ==
  enabled =>
    \A n, from \in Offsets : LET page == TakeRecords(n, from)
      IN \A i \in DOMAIN page :
           page[i].offset >= since \/ page[i].log >= since => page[i].offset = page[i].log

\* The page of the comment on ic_logs: from the record with the offset asked
\* for, or from the oldest one kept, as many as asked for or as there are.
PageAsked(n, from) ==
  LET oldest == SaturatingSub(records.count, records.capacity)
      first == IF from < oldest THEN oldest ELSE from
      left == SaturatingSub(records.count, first)
  IN [i \in 1 .. (IF n <= left THEN n ELSE left) |-> first + i - 1]

\* take_records returns the page asked for, of the latest records for which
\* there is room, for every capacity and over every change of it that leaves no
\* room for dropped records; after one that does, from the time the ring is
\* full again.
PageFromOffset ==
  enabled /\ Whole =>
    \A n, from \in Offsets : LET page == TakeRecords(n, from)
      IN [i \in DOMAIN page |-> page[i].log] = PageAsked(n, from)

\* "`pagination.offset` value specifies an absolute identifier of the first log
\* entry to be returned" (canister.rs): a record that the ring has is the first
\* of the page that is asked for with its number.
AskedIsFirst ==
  enabled =>
    \A n \in Offsets \ {0}, i \in DOMAIN records.ring :
      LET page == TakeRecords(n, records.ring[i])
      IN page # << >> /\ page[1].log = records.ring[i]

\* The logger runs with the settings that an upgrade would find: each setter
\* changes the heap and the stable cell, and neither if the filter is invalid.
ConfigAsStored ==
  config # None =>
    /\ config = cell.log_filter
    /\ enabled = (cell.in_memory_records > 0)
    /\ enabled => records.capacity = cell.in_memory_records

\* Once nobody has the Configure permission, no message, upgrades included,
\* changes the settings or the access list again: Read is not enough for it.
LockedForGood ==
  [][attached /\ (\A p \in Principal : << p, ConfigurePermission >> \notin cell.acl)
       => UNCHANGED cell]_logVars

\* The ring holds the records logged since then, as many as it has room for,
\* in their places; what else it holds is older.
RingInv ==
  /\ records \in [count : 0 .. MaxRecords, ring : Seq(0 .. MaxRecords), capacity : Nat \ {0}]
  /\ since \in 0 .. MaxRecords /\ since <= records.count
  /\ Len(records.ring) <= records.capacity /\ Len(records.ring) <= records.count
  /\ enabled => Len(records.ring) >= records.capacity
                 \/ Len(records.ring) >= records.count - since
  /\ \A i \in 1 .. Len(records.ring) :
       LET number == records.count - Len(records.ring) + i - 1
       IN /\ records.ring[i] < records.count
          /\ number >= since \/ records.ring[i] >= since => records.ring[i] = number

\* The heap and the stable cell agree, and whoever may still change the
\* settings finds a capacity in them that a buffer can have.
SettingsInv ==
  /\ config \in Filter \cup {None} /\ cell \in StorableLogSettings \cup {None}
  /\ enabled \in BOOLEAN /\ attached \in BOOLEAN
  /\ attached <=> cell # None
  /\ config # None => attached
  /\ cell # None /\ cell.acl # {} => cell.in_memory_records \in Capacities
  /\ ConfigAsStored

\* What makes the invariants of the log inductive.
LogInv == RingInv /\ SettingsInv
=============================================================================
