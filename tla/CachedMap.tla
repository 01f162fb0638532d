------------------------------ MODULE CachedMap ------------------------------
(***************************************************************************)
(* CachedStableBTreeMap and CachedStableMultimap of ic-stable-structures   *)
(* (cache/btreemap.rs, cache/multimap.rs): an LRU cache before a map in    *)
(* stable memory (stable_storage/btreemap.rs, stable_storage/multimap.rs). *)
(*                                                                         *)
(* Methods with &mut self are alone.  Methods with &self run concurrently, *)
(* and get() has two lock regions: it looks into the cache, and if it      *)
(* finds nothing it reads the stable map and puts the value into the       *)
(* cache, while other readers do the same.  The cache is lost when the     *)
(* structure is opened again over its memory.                              *)
(*                                                                         *)
(* A plain map has the keys of the multimap here; `structure' says which   *)
(* of the two a behaviour is about.                                        *)
(***************************************************************************)
EXTENDS LruCache, KeyOrder

CONSTANTS
  Reader,         \* the threads that read
  CacheCaps       \* max_cache_items

ASSUME CacheCapsAssumption == CacheCaps \subseteq Nat

\* trait Bounded: the second key's type has a MIN and a MAX.
ASSUME BoundedAssumption == \E lo, hi \in Key2 : \A k \in Key2 : lo <= k /\ k <= hi

VARIABLES
  structure,    \* "btreemap" or "multimap"
  max_cache_items,
  inner,        \* stable memory
  cache,        \* heap
  reading,      \* per reader: the key it missed in the cache, or NoKey
  answered      \* what the operation that returned last returned

cacheVars == << structure, max_cache_items, inner, cache, reading, answered >>
frame == << structure, max_cache_items >>

NoKey == << >>

Answered(op, result) == answered' = [op |-> op, result |-> result]

\* Bounded: the least and the greatest value of the second key's type
Key2MIN == CHOOSE k \in Key2 : \A l \in Key2 : k <= l
Key2MAX == CHOOSE k \in Key2 : \A l \in Key2 : k >= l

\* &mut self excludes every reader.
Exclusive == \A r \in Reader : reading[r] = NoKey

-----------------------------------------------------------------------------
(* The stable maps *)

\* StableMultimap::range and the keys that remove_partial collects
EntriesOf(k1) == Entries(inner, << k1, Key2MIN >>, << k1, Key2MAX >>)

\* Mutant: the bound itself is where the iterator starts.
UpperBoundInclusive(bound) ==
  LET start == LastKeys({k \in DOMAIN inner : ~ Below(bound, k)})
  IN Restricted(inner, {k \in DOMAIN inner : \E s \in start : ~ Below(k, s)})

\* BTreeMap::iter_upper_bound
UpperBound(bound) ==
  LET start == LastKeys({k \in DOMAIN inner : Below(k, bound)})
  IN Restricted(inner, {k \in DOMAIN inner : \E s \in start : ~ Below(k, s)})

-----------------------------------------------------------------------------
(* Readers *)

\* get_or_try_insert_with, the first region
LookUp(r, k) ==
  /\ reading[r] = NoKey
  /\ IF IsCached(cache, k)
     THEN /\ cache' = Touched(cache, k)
          /\ Answered("get", cache[k].value)
          /\ UNCHANGED reading
     ELSE /\ reading' = [reading EXCEPT ![r] = k]
          /\ UNCHANGED << cache, answered >>
  /\ UNCHANGED << frame, inner >>

\* get_or_try_insert_with, the stable read and the second region
Fill(r) ==
  LET k == reading[r]
      value == Lookup(inner, k)
  IN /\ k # NoKey
     /\ cache' = IF value = Absent THEN cache
                 ELSE Inserted(cache, k, value, max_cache_items)
     /\ Answered("get", value)
     /\ reading' = [reading EXCEPT ![r] = NoKey]
     /\ UNCHANGED << frame, inner >>

\* CachedStableBTreeMap::contains_key
ContainsKey(k) ==
  /\ structure = "btreemap"
  /\ Answered("contains_key", IsCached(cache, k) \/ k \in DOMAIN inner)
  /\ cache' = Touched(cache, k)
  /\ UNCHANGED << frame, inner, reading >>

\* len and is_empty
SizeOf ==
  /\ Answered("size", [len |-> Cardinality(DOMAIN inner),
                       is_empty |-> cache = EmptyCache /\ inner = EmptyMap])
  /\ UNCHANGED << frame, inner, cache, reading >>

\* The other reading methods bypass the cache.
Bypass(op, result) == Answered(op, result) /\ UNCHANGED << frame, inner, cache, reading >>

FirstKeyValue ==
  structure = "btreemap" /\ Bypass("first", Restricted(inner, FirstKeys(DOMAIN inner)))

LastKeyValue ==
  structure = "btreemap" /\ Bypass("last", Restricted(inner, LastKeys(DOMAIN inner)))

IterUpperBound(bound) == Bypass("iter_upper_bound", UpperBound(bound))

Iter == Bypass("iter", inner)

RangeOf(k1) == structure = "multimap" /\ Bypass("range", EntriesOf(k1))

-----------------------------------------------------------------------------
(* Writers *)

Insert(k, v) ==
  /\ Exclusive
  /\ cache' = Inserted(cache, k, v, max_cache_items)
  /\ inner' = With(inner, k, v)
  /\ Answered("insert", Lookup(inner, k))
  /\ UNCHANGED << frame, reading >>

\* Mutant: the cache keeps the entry.
RemoveInner(k) ==
  /\ Exclusive
  /\ inner' = Without(inner, {k})
  /\ Answered("remove", Lookup(inner, k))
  /\ UNCHANGED << frame, cache, reading >>

Remove(k) ==
  /\ Exclusive
  /\ cache' = Removed(cache, k)
  /\ inner' = Without(inner, {k})
  /\ Answered("remove", Lookup(inner, k))
  /\ UNCHANGED << frame, reading >>

RemovePartial(k1) ==
  LET keys == DOMAIN EntriesOf(k1)
  IN /\ structure = "multimap"
     /\ Exclusive
     /\ cache' = EmptyCache
     /\ inner' = Without(inner, keys)
     /\ Answered("remove_partial", keys # {})
     /\ UNCHANGED << frame, reading >>

\* Of none or one key: None returns before the cache is touched.
PopKey(keys) ==
  /\ structure = "multimap"
  /\ Exclusive
  /\ inner' = Without(inner, keys)
  /\ cache' = IF keys = {} THEN cache ELSE Removed(cache, CHOOSE k \in keys : TRUE)
  /\ Answered("pop", Restricted(inner, keys))
  /\ UNCHANGED << frame, reading >>

PopFirst == PopKey(FirstKeys(DOMAIN inner))

PopLast == PopKey(LastKeys(DOMAIN inner))

ClearMap ==
  /\ Exclusive
  /\ cache' = EmptyCache
  /\ inner' = EmptyMap
  /\ Answered("clear", Absent)
  /\ UNCHANGED << frame, reading >>

\* The structure is made anew over the same memory, after an upgrade.
Reopen ==
  /\ cache' = EmptyCache
  /\ reading' = [r \in Reader |-> NoKey]
  /\ UNCHANGED << frame, inner, answered >>

-----------------------------------------------------------------------------

CacheInit ==
  /\ structure \in {"btreemap", "multimap"}
  /\ max_cache_items \in CacheCaps
  /\ inner = EmptyMap
  /\ cache = EmptyCache
  /\ reading = [r \in Reader |-> NoKey]
  /\ answered = [op |-> "new", result |-> Absent]

CacheNext ==
  \/ \E r \in Reader : Fill(r) \/ \E k \in Key : LookUp(r, k)
  \/ \E k \in Key : ContainsKey(k) \/ Remove(k) \/ IterUpperBound(k)
  \/ \E k \in Key, v \in MapValue : Insert(k, v)
  \/ \E k1 \in Key1 : RangeOf(k1) \/ RemovePartial(k1)
  \/ SizeOf \/ FirstKeyValue \/ LastKeyValue \/ Iter
  \/ PopFirst \/ PopLast \/ ClearMap \/ Reopen

CacheSpec == CacheInit /\ [][CacheNext]_cacheVars

-----------------------------------------------------------------------------
(* What the cached maps promise *)

CacheTypeOK ==
  /\ structure \in {"btreemap", "multimap"}
  /\ max_cache_items \in CacheCaps
  /\ DOMAIN inner \subseteq Key /\ \A k \in DOMAIN inner : inner[k] \in MapValue
  /\ DOMAIN cache \subseteq Key
  /\ reading \in [Reader -> Key \cup {NoKey}]

(***************************************************************************)
(* What is cached is what is stored, also after an entry was evicted and   *)
(* read again, or was put into the cache by two readers that both missed   *)
(* it: no write leaves a value in the cache that stable memory no longer   *)
(* has.  There are at most max_cache_items entries, and whatever is hit,   *)
(* replaced, removed and evicted, one of them is least recently used.      *)
(***************************************************************************)
CacheCoherent ==
  LET n == Cardinality(DOMAIN cache)
  IN /\ \A k \in DOMAIN cache : k \in DOMAIN inner /\ cache[k].value = inner[k]
     /\ n <= max_cache_items
     /\ {cache[k].age : k \in DOMAIN cache} = 0 .. n - 1

\* The ages of n cached keys: each of 0 .. n - 1 once.
Aged(c, n) ==
  /\ c \in [DOMAIN c -> [value : MapValue, age : 0 .. n - 1]]
  /\ \A k, l \in DOMAIN c : c[k].age = c[l].age => k = l
  /\ \A a \in 0 .. n - 1 : \E k \in DOMAIN c : c[k].age = a

(***************************************************************************)
(* The inductive invariant behind CacheCoherent: no two keys have the same *)
(* age, without which the next eviction could drop two keys or none, and a *)
(* reader only waits for a key of the map's type.                          *)
(***************************************************************************)
CacheInv ==
  /\ CacheTypeOK
  /\ inner \in [DOMAIN inner -> MapValue]
  /\ \A k \in DOMAIN cache : k \in DOMAIN inner /\ cache[k].value = inner[k]
  /\ \E n \in 0 .. max_cache_items : Aged(cache, n)

Plain == INSTANCE OrderedMap WITH map <- inner, answer <- answered

(***************************************************************************)
(* The cache is invisible: the cached maps answer every call as the plain  *)
(* map of the traits does, whatever is cached at the time.                 *)
(***************************************************************************)
IsOrderedMap == Plain!OMSpec
=============================================================================
