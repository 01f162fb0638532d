------------------------------ MODULE LruCache ------------------------------
(***************************************************************************)
(* SyncLruCache of ic-stable-structures (cache/lru.rs), a mutex around the *)
(* LruMap of schnellru with the limiter ByLength.  A cache is a function   *)
(* from the cached keys to their values and ages: the key used last has    *)
(* age 0, and the ages of the n cached keys are 0 .. n - 1.                *)
(*                                                                         *)
(* Every operator is one lock region.                                      *)
(***************************************************************************)
EXTENDS Naturals

\* SyncLruCache::new, and what clear() leaves
EmptyCache == [key \in {} |-> [value |-> 0, age |-> 0]]

IsCached(cache, key) == key \in DOMAIN cache

\* LruMap::get moves the key to the head of the list; contains_key does too.
Touched(cache, key) ==
  [k \in DOMAIN cache |-> [cache[k] EXCEPT !.age =
     CASE k = key -> 0
       [] k # key /\ IsCached(cache, key) /\ @ < cache[key].age -> @ + 1
       [] OTHER -> @]]

\* LruMap::insert: a full cache drops the key at the tail, and a cache of
\* capacity 0 takes nothing.
Inserted(cache, key, value, cap) ==
  IF IsCached(cache, key) THEN [Touched(cache, key) EXCEPT ![key].value = value]
  ELSE IF cap = 0 THEN cache
  ELSE [k \in {x \in DOMAIN cache : cache[x].age + 1 < cap} \cup {key} |->
          IF k = key THEN [value |-> value, age |-> 0]
                     ELSE [cache[k] EXCEPT !.age = @ + 1]]

\* LruMap::remove
Removed(cache, key) ==
  [k \in DOMAIN cache \ {key} |-> [cache[k] EXCEPT !.age =
     IF IsCached(cache, key) /\ @ > cache[key].age THEN @ - 1 ELSE @]]
=============================================================================
