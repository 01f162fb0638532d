----------------------------- MODULE OrderedMap -----------------------------
(***************************************************************************)
(* What the map traits of ic-stable-structures (structure/mod.rs) promise: *)
(* BTreeMapStructure, IterableSortedMapStructure and MultimapStructure.    *)
(* A map from keys to values, and the answer of the operation called last. *)
(* A key is a pair of numbers, ordered by the first and then the second.   *)
(* The abstract side of CachedMap.                                         *)
(***************************************************************************)
EXTENDS KeyOrder

VARIABLES map, answer

Answer(op, result) == answer' = [op |-> op, result |-> result]

-----------------------------------------------------------------------------
(* The contracts *)

OMInit == map = EmptyMap /\ answer = [op |-> "new", result |-> Absent]

OMGet(k) == Answer("get", Lookup(map, k)) /\ UNCHANGED map

OMContainsKey(k) == Answer("contains_key", k \in DOMAIN map) /\ UNCHANGED map

OMInsert(k, v) == Answer("insert", Lookup(map, k)) /\ map' = With(map, k, v)

OMRemove(k) == Answer("remove", Lookup(map, k)) /\ map' = Without(map, {k})

\* All entries of a first key; was there any?
OMRemovePartial(k1) ==
  LET keys == {k \in DOMAIN map : k[1] = k1}
  IN Answer("remove_partial", keys # {}) /\ map' = Without(map, keys)

OMPop(keys) ==
  /\ Answer("pop", Restricted(map, keys))
  /\ map' = Without(map, keys)

OMClear == Answer("clear", Absent) /\ map' = EmptyMap

OMSize ==
  /\ Answer("size", [len |-> Cardinality(DOMAIN map), is_empty |-> map = EmptyMap])
  /\ UNCHANGED map

OMFirst == Answer("first", Restricted(map, FirstKeys(DOMAIN map))) /\ UNCHANGED map

OMLast == Answer("last", Restricted(map, LastKeys(DOMAIN map))) /\ UNCHANGED map

OMIterAll == Answer("iter", map) /\ UNCHANGED map

OMRange(k1) ==
  Answer("range", Restricted(map, {k \in DOMAIN map : k[1] = k1})) /\ UNCHANGED map

\* "pointing to the first element below the given bound", and on from there
OMIterUpperBound(bound) ==
  LET below == LastKeys({k \in DOMAIN map : Below(k, bound)})
  IN /\ Answer("iter_upper_bound",
               Restricted(map, {k \in DOMAIN map : \E b \in below : ~ Below(k, b)}))
     /\ UNCHANGED map

OMNext ==
  \/ \E k \in Key : OMGet(k) \/ OMContainsKey(k) \/ OMRemove(k) \/ OMIterUpperBound(k)
  \/ \E k \in Key, v \in MapValue : OMInsert(k, v)
  \/ \E k1 \in Key1 : OMRemovePartial(k1) \/ OMRange(k1)
  \/ OMPop(FirstKeys(DOMAIN map)) \/ OMPop(LastKeys(DOMAIN map))
  \/ OMClear \/ OMSize \/ OMFirst \/ OMLast \/ OMIterAll

OMSpec == OMInit /\ [][OMNext]_<< map, answer >>
=============================================================================
