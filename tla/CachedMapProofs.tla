--------------------------- MODULE CachedMapProofs ---------------------------
(***************************************************************************)
(* Proofs about CachedMap, for all keys, values, readers and capacities:   *)
(* the cache is coherent with stable memory, and the cached maps implement *)
(* OrderedMap.                                                             *)
(***************************************************************************)
EXTENDS CachedMap, FiniteSetTheorems, FunctionTheorems, TLAPS

-----------------------------------------------------------------------------
(* SyncLruCache *)

\* Moving the ages on either side of a gap at p by one keeps them apart.
LEMMA GapClosed ==
  ASSUME NEW p \in Nat, NEW x \in Nat, NEW y \in Nat, x # p, y # p
  PROVE  /\ (IF x < p THEN x + 1 ELSE x) = (IF y < p THEN y + 1 ELSE y) => x = y
         /\ (IF x > p THEN x - 1 ELSE x) = (IF y > p THEN y - 1 ELSE y) => x = y
  OBVIOUS

\* As many keys are cached as there are ages.
LEMMA AgedCardinality ==
  ASSUME NEW c, NEW n \in Nat, Aged(c, n)
  PROVE  /\ IsFiniteSet(DOMAIN c) /\ Cardinality(DOMAIN c) = n
         /\ {c[k].age : k \in DOMAIN c} = 0 .. n - 1
  <1> DEFINE F == [k \in DOMAIN c |-> c[k].age + 1]
  <1>1. \A k \in DOMAIN c : c[k].age \in 0 .. n - 1
    BY DEF Aged
  <1>2. F \in [DOMAIN c -> 1 .. n]
    BY <1>1
  <1>3. \A k, l \in DOMAIN c : F[k] = F[l] => k = l
    BY <1>1 DEF Aged
  <1>4. \A b \in 1 .. n : \E k \in DOMAIN c : F[k] = b
    <2> TAKE b \in 1 .. n
    <2>1. b - 1 \in 0 .. n - 1
      OBVIOUS
    <2>2. PICK k \in DOMAIN c : c[k].age = b - 1
      BY <2>1 DEF Aged
    <2> QED
      BY <2>2
  <1>5. F \in Bijection(DOMAIN c, 1 .. n)
    <2> HIDE DEF F
    <2> QED
      BY <1>2, <1>3, <1>4, Fun_IsBij
  <1>6. ExistsBijection(1 .. n, DOMAIN c)
    BY <1>5, Fun_ExistsBijSymmetric DEF ExistsBijection
  <1>7. IsFiniteSet(DOMAIN c) /\ Cardinality(DOMAIN c) = n
    BY <1>6, FS_CountingElements, FS_NatBijection
  <1>8. {c[k].age : k \in DOMAIN c} = 0 .. n - 1
    BY <1>1 DEF Aged
  <1> QED
    BY <1>7, <1>8

\* get() and contains_key() change the ages of the keys used since, and
\* nothing else.
LEMMA TouchedAged ==
  ASSUME NEW c, NEW n \in Nat, Aged(c, n), NEW key
  PROVE  /\ Aged(Touched(c, key), n)
         /\ DOMAIN Touched(c, key) = DOMAIN c
         /\ \A k \in DOMAIN c : Touched(c, key)[k].value = c[k].value
  <1> DEFINE t == Touched(c, key)
  <1>1. DOMAIN t = DOMAIN c
    BY DEF Touched
  <1>2. \A k \in DOMAIN c : /\ c[k] \in [value : MapValue, age : 0 .. n - 1]
                            /\ c[k].age \in Nat /\ c[k].age < n
    BY DEF Aged
  <1>3. ASSUME key \notin DOMAIN c PROVE t = c
    <2>1. \A k \in DOMAIN c : t[k] = [c[k] EXCEPT !.age = @]
      BY <1>3 DEF Touched, IsCached
    <2>2. \A k \in DOMAIN c : t[k] = c[k]
      BY <1>2, <2>1
    <2> QED
      BY <2>2 DEF Touched, Aged
  <1>4. CASE key \notin DOMAIN c
    BY <1>3, <1>4
  <1>5. CASE key \in DOMAIN c
    <2> DEFINE p == c[key].age
    <2>1. p \in Nat /\ p < n
      BY <1>2, <1>5
    <2> DEFINE moved(k) == IF k = key THEN 0
                           ELSE IF c[k].age < p THEN c[k].age + 1 ELSE c[k].age
    <2>2. ASSUME NEW k \in DOMAIN c
          PROVE  /\ t[k] = [value |-> c[k].value, age |-> moved(k)]
                 /\ c[k].value \in MapValue /\ moved(k) \in 0 .. n - 1
                 /\ t[k].value = c[k].value /\ t[k].age = moved(k)
                 /\ t[k] \in [value : MapValue, age : 0 .. n - 1]
      <3>1. t[k] = [value |-> c[k].value, age |-> moved(k)]
        BY <1>2, <1>5 DEF Touched, IsCached
      <3>2. c[k].value \in MapValue /\ moved(k) \in 0 .. n - 1
        BY <1>2, <2>1
      <3> HIDE DEF t, moved
      <3> QED
        BY <3>1, <3>2
    <2> HIDE DEF p
    <2>3. t \in [DOMAIN t -> [value : MapValue, age : 0 .. n - 1]]
      BY <1>1, <2>2 DEF Touched
    <2>4. \A k \in DOMAIN c : k # key => c[k].age # p
      BY <1>5 DEF Aged, p
    <2>c. t[key].age = 0
      BY <1>5, <2>2
    <2>d. \A k \in DOMAIN c : k # key =>
            t[k].age = IF c[k].age < p THEN c[k].age + 1 ELSE c[k].age
      BY <2>2
    <2> HIDE DEF moved, t
    <2>5. \A k, l \in DOMAIN t : t[k].age = t[l].age => k = l
      <3> SUFFICES ASSUME NEW k \in DOMAIN c, NEW l \in DOMAIN c, t[k].age = t[l].age
                   PROVE  k = l
        BY <1>1
      <3>1. c[k].age = c[l].age => k = l
        BY DEF Aged
      <3>2. k = key \/ l = key => k = l
        BY <1>2, <2>1, <2>c, <2>d, <2>4
      <3>3. k # key /\ l # key => c[k].age = c[l].age
        <4> HAVE k # key /\ l # key
        <4>1. c[k].age \in Nat /\ c[l].age \in Nat /\ c[k].age # p /\ c[l].age # p
          BY <1>2, <2>4
        <4>2. (IF c[k].age < p THEN c[k].age + 1 ELSE c[k].age)
                = IF c[l].age < p THEN c[l].age + 1 ELSE c[l].age
          BY <2>d
        <4> QED
          BY <4>1, <4>2, <2>1, GapClosed
      <3> QED
        BY <3>1, <3>2, <3>3
    <2>6. ASSUME NEW a \in 0 .. n - 1 PROVE \E k \in DOMAIN t : t[k].age = a
      <3>1. CASE a = 0
        BY <1>1, <1>5, <2>c, <3>1
      <3>2. CASE 0 < a /\ a <= p
        <4>1. a - 1 \in 0 .. n - 1
          BY <3>2
        <4>2. PICK k \in DOMAIN c : c[k].age = a - 1
          BY <4>1 DEF Aged
        <4>3. k # key
          BY <4>2, <3>2, <2>1 DEF p
        <4>4. t[k].age = a
          BY <4>2, <4>3, <3>2, <2>d, <2>1
        <4> QED
          BY <4>4, <1>1
      <3>3. CASE a > p
        <4>1. PICK k \in DOMAIN c : c[k].age = a
          BY DEF Aged
        <4>2. k # key
          BY <4>1, <3>3, <2>1 DEF p
        <4>3. t[k].age = a
          BY <4>1, <4>2, <3>3, <2>d, <2>1
        <4> QED
          BY <4>3, <1>1
      <3> QED
        BY <3>1, <3>2, <3>3, <2>1
    <2>7. Aged(t, n)
      BY <2>3, <2>5, <2>6 DEF Aged
    <2> QED
      BY <1>1, <2>2, <2>7 DEF t
  <1> QED
    BY <1>4, <1>5

\* remove() moves the keys behind the removed one up.
LEMMA RemovedAged ==
  ASSUME NEW c, NEW n \in Nat, Aged(c, n), NEW key
  PROVE  /\ \E m \in 0 .. n : Aged(Removed(c, key), m)
         /\ DOMAIN Removed(c, key) = DOMAIN c \ {key}
         /\ \A k \in DOMAIN c \ {key} : Removed(c, key)[k].value = c[k].value
  <1> DEFINE t == Removed(c, key)
  <1>1. DOMAIN t = DOMAIN c \ {key}
    BY DEF Removed
  <1>2. \A k \in DOMAIN c : /\ c[k] \in [value : MapValue, age : 0 .. n - 1]
                            /\ c[k].age \in Nat /\ c[k].age < n
    BY DEF Aged
  <1>3. CASE key \notin DOMAIN c
    <2>1. \A k \in DOMAIN c : t[k] = [c[k] EXCEPT !.age = @]
      BY <1>3 DEF Removed, IsCached
    <2>2. \A k \in DOMAIN c : t[k] = c[k]
      BY <1>2, <2>1
    <2>3. t = c
      <3>1. t \in [DOMAIN c -> [value : MapValue, age : 0 .. n - 1]]
        BY <1>1, <1>2, <1>3, <2>2 DEF Removed
      <3> HIDE DEF t
      <3> QED
        BY <2>2, <3>1 DEF Aged
    <2> QED
      BY <2>3, <1>3
  <1>4. CASE key \in DOMAIN c
    <2> DEFINE p == c[key].age
    <2>1. p \in Nat /\ p < n
      BY <1>2, <1>4
    <2> DEFINE moved(k) == IF c[k].age > p THEN c[k].age - 1 ELSE c[k].age
    <2>a. \A k \in DOMAIN t : t[k] = [value |-> c[k].value, age |-> moved(k)]
      BY <1>2, <1>4 DEF Removed, IsCached
    <2>3. \A k \in DOMAIN t : c[k].age # p /\ c[k].age \in Nat /\ c[k].age < n
      BY <1>1, <1>2, <1>4 DEF Aged
    <2>b. \A k \in DOMAIN t : c[k].value \in MapValue /\ moved(k) \in 0 .. (n - 1) - 1
      <3> HIDE DEF p, t
      <3> QED
        BY <1>1, <1>2, <2>1, <2>3
    <2>2. \A k \in DOMAIN t :
            /\ t[k].value = c[k].value
            /\ t[k].age = IF c[k].age > p THEN c[k].age - 1 ELSE c[k].age
      BY <2>a
    <2> HIDE DEF p
    <2>4. t \in [DOMAIN t -> [value : MapValue, age : 0 .. (n - 1) - 1]]
      <3> HIDE DEF moved
      <3>1. \A k \in DOMAIN t : t[k] \in [value : MapValue, age : 0 .. (n - 1) - 1]
        BY <2>a, <2>b
      <3> QED
        BY <3>1, <1>1 DEF Removed
    <2> HIDE DEF t, moved
    <2>5. \A k, l \in DOMAIN t : t[k].age = t[l].age => k = l
      <3> SUFFICES ASSUME NEW k \in DOMAIN t, NEW l \in DOMAIN t, t[k].age = t[l].age
                   PROVE  k = l
        OBVIOUS
      <3>1. c[k].age = c[l].age => k = l
        BY <1>1 DEF Aged
      <3>2. c[k].age = c[l].age
        <4>1. (IF c[k].age > p THEN c[k].age - 1 ELSE c[k].age)
                = IF c[l].age > p THEN c[l].age - 1 ELSE c[l].age
          BY <2>2
        <4>2. c[k].age \in Nat /\ c[l].age \in Nat /\ c[k].age # p /\ c[l].age # p
          BY <2>3
        <4> QED
          BY <4>1, <4>2, <2>1, GapClosed
      <3> QED
        BY <3>1, <3>2
    <2>6. ASSUME NEW a \in 0 .. (n - 1) - 1 PROVE \E k \in DOMAIN t : t[k].age = a
      <3>1. CASE a < p
        <4>1. PICK k \in DOMAIN c : c[k].age = a
          BY DEF Aged
        <4>2. k # key
          BY <4>1, <3>1, <2>1 DEF p
        <4>3. k \in DOMAIN t
          BY <1>1, <4>2
        <4> QED
          BY <4>1, <4>3, <3>1, <2>1, <2>2
      <3>2. CASE a >= p
        <4>1. a + 1 \in 0 .. n - 1
          OBVIOUS
        <4>2. PICK k \in DOMAIN c : c[k].age = a + 1
          BY <4>1 DEF Aged
        <4>3. k # key
          BY <4>2, <3>2, <2>1 DEF p
        <4>4. k \in DOMAIN t
          BY <1>1, <4>3
        <4> QED
          BY <4>2, <4>4, <3>2, <2>1, <2>2
      <3> QED
        BY <3>1, <3>2, <2>1
    <2>7. Aged(t, n - 1)
      BY <2>4, <2>5, <2>6 DEF Aged
    <2>8. n - 1 \in 0 .. n
      BY <2>1
    <2> QED
      BY <1>1, <2>2, <2>7, <2>8 DEF t
  <1> QED
    BY <1>3, <1>4

\* insert() replaces a cached value, and else drops the oldest key of a full
\* cache.
LEMMA InsertedAged ==
  ASSUME NEW c, NEW cap \in Nat, NEW n \in 0 .. cap, Aged(c, n), NEW key, NEW v \in MapValue
  PROVE  LET t == Inserted(c, key, v, cap)
         IN /\ \E m \in 0 .. cap : Aged(t, m)
            /\ DOMAIN t \subseteq DOMAIN c \cup {key}
            /\ \A k \in DOMAIN t : t[k].value = IF k = key THEN v ELSE c[k].value
  <1> DEFINE t == Inserted(c, key, v, cap)
  <1>1. \A k \in DOMAIN c : /\ c[k] \in [value : MapValue, age : 0 .. n - 1]
                            /\ c[k].age \in Nat /\ c[k].age < n
    BY DEF Aged
  <1>2. CASE key \in DOMAIN c
    <2> DEFINE u == Touched(c, key)
    <2>1. Aged(u, n) /\ DOMAIN u = DOMAIN c /\ \A k \in DOMAIN c : u[k].value = c[k].value
      BY TouchedAged
    <2> HIDE DEF u
    <2>2. t = [u EXCEPT ![key].value = v]
      BY <1>2 DEF Inserted, IsCached, u
    <2> HIDE DEF t
    <2>3. DOMAIN t = DOMAIN c
      BY <2>1, <2>2
    <2>4. ASSUME NEW k \in DOMAIN c
          PROVE  /\ t[k] \in [value : MapValue, age : 0 .. n - 1]
                 /\ t[k].age = u[k].age
                 /\ t[k].value = IF k = key THEN v ELSE c[k].value
      <3>1. u[k] \in [value : MapValue, age : 0 .. n - 1]
        BY <2>1 DEF Aged
      <3>2. CASE k = key
        <4>1. t[k] = [u[k] EXCEPT !.value = v]
          BY <2>1, <2>2, <3>2
        <4> QED
          BY <3>1, <3>2, <4>1
      <3>3. CASE k # key
        <4>1. t[k] = u[k]
          BY <2>1, <2>2, <3>3
        <4> QED
          BY <2>1, <3>1, <3>3, <4>1
      <3> QED
        BY <3>2, <3>3
    <2>5. t \in [DOMAIN t -> [value : MapValue, age : 0 .. n - 1]]
      BY <2>1, <2>2, <2>3, <2>4
    <2>6. \A k, l \in DOMAIN t : t[k].age = t[l].age => k = l
      BY <2>1, <2>3, <2>4 DEF Aged
    <2>7. \A a \in 0 .. n - 1 : \E k \in DOMAIN t : t[k].age = a
      BY <2>1, <2>3, <2>4 DEF Aged
    <2>8. Aged(t, n)
      BY <2>5, <2>6, <2>7 DEF Aged
    <2> QED
      BY <2>3, <2>4, <2>8 DEF t
  <1>3. CASE key \notin DOMAIN c /\ cap = 0
    <2>1. t = c
      BY <1>3 DEF Inserted, IsCached
    <2> QED
      BY <1>3, <2>1
  <1>4. CASE key \notin DOMAIN c /\ cap # 0
    <2> DEFINE m == IF n < cap THEN n + 1 ELSE cap
               old == {x \in DOMAIN c : c[x].age + 1 < cap}
    <2>1. t = [k \in old \cup {key} |->
                 IF k = key THEN [value |-> v, age |-> 0] ELSE [c[k] EXCEPT !.age = @ + 1]]
      BY <1>4 DEF Inserted, IsCached
    <2>2. m \in 0 .. cap /\ m > 0 /\ n <= m /\ m <= n + 1
      BY <1>4
    <2> HIDE DEF t
    <2>3. DOMAIN t = old \cup {key} /\ key \notin old
      BY <1>4, <2>1
    <2>4. ASSUME NEW k \in old
          PROVE  /\ t[k] = [value |-> c[k].value, age |-> c[k].age + 1]
                 /\ t[k] \in [value : MapValue, age : 0 .. m - 1]
                 /\ t[k].age = c[k].age + 1 /\ t[k].value = c[k].value
      <3>1. t[k] = [c[k] EXCEPT !.age = @ + 1]
        BY <2>1, <2>3
      <3>2. t[k] = [value |-> c[k].value, age |-> c[k].age + 1]
        BY <1>1, <3>1
      <3>3. c[k].value \in MapValue /\ c[k].age + 1 \in 0 .. m - 1
        BY <1>1, <2>2
      <3> HIDE DEF old, m
      <3> QED
        BY <3>2, <3>3
    <2>5. /\ t[key] \in [value : MapValue, age : 0 .. m - 1]
          /\ t[key].value = v /\ t[key].age = 0
      BY <2>1, <2>2
    <2>6. t \in [DOMAIN t -> [value : MapValue, age : 0 .. m - 1]]
      BY <2>1, <2>3, <2>4, <2>5
    <2>7. \A k, l \in DOMAIN t : t[k].age = t[l].age => k = l
      <3> SUFFICES ASSUME NEW k \in DOMAIN t, NEW l \in DOMAIN t, t[k].age = t[l].age
                   PROVE  k = l
        OBVIOUS
      <3>1. \A x \in old : t[x].age = c[x].age + 1 /\ c[x].age \in Nat
        BY <1>1, <2>4
      <3>2. k = key \/ l = key => k = l
        BY <2>3, <2>5, <3>1
      <3>3. k \in old /\ l \in old => k = l
        <4> HAVE k \in old /\ l \in old
        <4>1. c[k].age = c[l].age
          BY <3>1
        <4> QED
          BY <4>1 DEF Aged
      <3> QED
        BY <2>3, <3>2, <3>3
    <2>8. ASSUME NEW a \in 0 .. m - 1 PROVE \E k \in DOMAIN t : t[k].age = a
      <3>1. CASE a = 0
        BY <2>3, <2>5, <3>1
      <3>2. CASE a > 0
        <4>1. a - 1 \in 0 .. n - 1 /\ (a - 1) + 1 < cap
          <5>1. m \in Nat /\ n \in Nat /\ a \in Nat /\ a < m
            BY <2>2
          <5> HIDE DEF m
          <5> QED
            BY <2>2, <3>2, <5>1
        <4>2. PICK k \in DOMAIN c : c[k].age = a - 1
          BY <4>1 DEF Aged
        <4>3. k \in old
          BY <4>1, <4>2
        <4>4. t[k].age = c[k].age + 1
          BY <2>4, <4>3
        <4>5. t[k].age = a
          BY <4>2, <4>4
        <4> QED
          BY <2>3, <4>3, <4>5
      <3> QED
        BY <3>1, <3>2
    <2>9. Aged(t, m)
      <3> HIDE DEF m
      <3> QED
        BY <2>6, <2>7, <2>8 DEF Aged
    <2>10. \A k \in DOMAIN t : t[k].value = IF k = key THEN v ELSE c[k].value
      BY <2>3, <2>4, <2>5
    <2> QED
      BY <2>2, <2>3, <2>9, <2>10 DEF t
  <1> QED
    BY <1>2, <1>3, <1>4

\* A cache that is made or cleared holds nothing.
LEMMA EmptyAged == Aged(EmptyCache, 0) /\ DOMAIN EmptyCache = {}
  BY DEF Aged, EmptyCache

-----------------------------------------------------------------------------
(* The stable maps *)

\* The order of the pairs is total and strict.
LEMMA BelowIsStrict ==
  ASSUME NEW k \in Key, NEW l \in Key
  PROVE  /\ k[1] \in Int /\ k[2] \in Int /\ k[1] \in Key1 /\ k[2] \in Key2
         /\ ~ (Below(k, l) /\ Below(l, k))
  <1>1. k[1] \in Int /\ k[2] \in Int /\ l[1] \in Int /\ l[2] \in Int
    BY KeysAssumption DEF Key
  <1> QED
    BY <1>1 DEF Key, Below

\* There is at most one first key, and at most one last.
LEMMA AtMostOne ==
  ASSUME NEW keys \in SUBSET Key
  PROVE  /\ FirstKeys(keys) \subseteq keys
         /\ \A k, l \in FirstKeys(keys) : k = l
         /\ LastKeys(keys) \subseteq keys
         /\ \A k, l \in LastKeys(keys) : k = l
  BY BelowIsStrict DEF FirstKeys, LastKeys

\* A range from K2::MIN to K2::MAX is all entries of the first key.
LEMMA EntriesOfFirst ==
  ASSUME CacheTypeOK, NEW k1 \in Key1
  PROVE  EntriesOf(k1) = Restricted(inner, {k \in DOMAIN inner : k[1] = k1})
  <1>1. /\ Key2MIN \in Key2 /\ \A l \in Key2 : Key2MIN <= l
        /\ Key2MAX \in Key2 /\ \A l \in Key2 : Key2MAX >= l
    <2>1. PICK lo \in Key2, hi \in Key2 : \A k \in Key2 : lo <= k /\ k <= hi
      BY BoundedAssumption
    <2>2. \A k \in Key2 : hi >= k
      BY <2>1, KeysAssumption
    <2> QED
      BY <2>1, <2>2 DEF Key2MIN, Key2MAX
  <1> DEFINE lo == << k1, Key2MIN >>
             hi == << k1, Key2MAX >>
  <1>2. ASSUME NEW k \in DOMAIN inner
        PROVE  ~ Below(k, lo) /\ ~ Below(hi, k) <=> k[1] = k1
    <2>1. k \in Key
      BY DEF CacheTypeOK
    <2>2. k[1] \in Int /\ k[2] \in Int /\ k[2] \in Key2 /\ k1 \in Int /\ Key2MIN \in Int /\ Key2MAX \in Int
      BY <1>1, <2>1, BelowIsStrict, KeysAssumption
    <2>3. Key2MIN <= k[2] /\ Key2MAX >= k[2]
      BY <1>1, <2>2
    <2> QED
      BY <2>2, <2>3 DEF Below
  <1>3. {k \in DOMAIN inner : ~ Below(k, lo) /\ ~ Below(hi, k)} = {k \in DOMAIN inner : k[1] = k1}
    BY <1>2
  <1> QED
    BY <1>3 DEF EntriesOf, Entries

-----------------------------------------------------------------------------
(* Coherence *)

\* A structure that was just made.
LEMMA CacheInvInit == CacheInit => CacheInv
  <1> SUFFICES ASSUME CacheInit PROVE CacheInv
    OBVIOUS
  <1>1. CacheTypeOK
    BY EmptyAged DEF CacheInit, CacheTypeOK, EmptyMap
  <1>2. inner \in [DOMAIN inner -> MapValue]
    BY DEF CacheInit, EmptyMap
  <1>3. 0 \in 0 .. max_cache_items
    BY CacheCapsAssumption DEF CacheInit
  <1> QED
    BY <1>1, <1>2, <1>3, EmptyAged DEF CacheInit, CacheInv

\* What a step that keeps the invariant has to show, once the cache it leaves
\* is known: the conjuncts about readers and settings are separate.
LEMMA CacheInvKept ==
  ASSUME CacheInv, UNCHANGED frame,
         reading' \in [Reader -> Key \cup {NoKey}],
         DOMAIN inner' \subseteq Key, inner' \in [DOMAIN inner' -> MapValue],
         \A k \in DOMAIN cache' : k \in DOMAIN inner' /\ cache'[k].value = inner'[k],
         \E n \in 0 .. max_cache_items : Aged(cache', n)
  PROVE  CacheInv'
  <1>1. max_cache_items' = max_cache_items /\ structure' = structure
    BY DEF frame
  <1>2. CacheTypeOK'
    BY <1>1 DEF CacheInv, CacheTypeOK
  <1> QED
    BY <1>1, <1>2 DEF CacheInv, Aged

\* Every operation, region by region, keeps the invariant.
LEMMA CacheInvNext == CacheInv /\ [CacheNext]_cacheVars => CacheInv'
  <1> SUFFICES ASSUME CacheInv, [CacheNext]_cacheVars PROVE CacheInv'
    OBVIOUS
  <1>1. /\ CacheTypeOK
        /\ inner \in [DOMAIN inner -> MapValue] /\ DOMAIN inner \subseteq Key
        /\ \A k \in DOMAIN cache : k \in DOMAIN inner /\ cache[k].value = inner[k]
        /\ reading \in [Reader -> Key \cup {NoKey}]
        /\ max_cache_items \in Nat
    BY CacheCapsAssumption DEF CacheInv, CacheTypeOK
  <1>2. PICK n \in 0 .. max_cache_items : Aged(cache, n)
    BY DEF CacheInv
  <1>3. n \in Nat
    BY <1>1
  <1>4. \A m \in 0 .. n : m \in 0 .. max_cache_items
    BY <1>1
  <1>e. \E m \in 0 .. max_cache_items : Aged(EmptyCache, m)
    <2>1. 0 \in 0 .. max_cache_items
      BY <1>1
    <2> QED
      BY <2>1, EmptyAged
  <1>5. ASSUME NEW r \in Reader, NEW k \in Key, LookUp(r, k) PROVE CacheInv'
    <2>1. UNCHANGED frame /\ inner' = inner /\ reading' \in [Reader -> Key \cup {NoKey}]
      BY <1>1, <1>5 DEF LookUp
    <2>2. cache' = cache \/ cache' = Touched(cache, k)
      BY <1>5 DEF LookUp
    <2>3. Aged(cache', n) /\ DOMAIN cache' = DOMAIN cache
          /\ \A x \in DOMAIN cache : cache'[x].value = cache[x].value
      BY <1>2, <1>3, <2>2, TouchedAged
    <2> QED
      BY <1>1, <1>2, <2>1, <2>3, CacheInvKept
  <1>6. ASSUME NEW r \in Reader, Fill(r) PROVE CacheInv'
    <2> DEFINE k == reading[r]
               v == Lookup(inner, k)
    <2>1. UNCHANGED frame /\ inner' = inner /\ reading' \in [Reader -> Key \cup {NoKey}]
      BY <1>1, <1>6 DEF Fill
    <2>2. CASE v = Absent
      <3>1. cache' = cache
        BY <1>6, <2>2 DEF Fill
      <3> QED
        BY <1>1, <1>2, <2>1, <3>1, CacheInvKept
    <2>3. CASE v # Absent
      <3>1. k \in DOMAIN inner /\ v = inner[k] /\ v \in MapValue
        BY <1>1, <2>3 DEF Lookup
      <3>2. cache' = Inserted(cache, k, v, max_cache_items)
        BY <1>6, <2>3 DEF Fill
      <3> HIDE DEF k, v
      <3>3. /\ \E m \in 0 .. max_cache_items : Aged(cache', m)
            /\ DOMAIN cache' \subseteq DOMAIN cache \cup {k}
            /\ \A x \in DOMAIN cache' : cache'[x].value = IF x = k THEN v ELSE cache[x].value
        BY <1>1, <1>2, <3>1, <3>2, InsertedAged
      <3>4. \A x \in DOMAIN cache' : x \in DOMAIN inner' /\ cache'[x].value = inner'[x]
        BY <1>1, <2>1, <3>1, <3>3
      <3> QED
        BY <1>1, <2>1, <3>3, <3>4, CacheInvKept
    <2> QED
      BY <2>2, <2>3
  <1>7. ASSUME NEW k \in Key, ContainsKey(k) PROVE CacheInv'
    <2>1. UNCHANGED << frame, inner, reading >> /\ cache' = Touched(cache, k)
      BY <1>7 DEF ContainsKey
    <2>2. Aged(cache', n) /\ DOMAIN cache' = DOMAIN cache
          /\ \A x \in DOMAIN cache : cache'[x].value = cache[x].value
      BY <1>2, <1>3, <2>1, TouchedAged
    <2> QED
      BY <1>1, <1>2, <2>1, <2>2, CacheInvKept
  <1>8. ASSUME NEW k \in Key, NEW v \in MapValue, Insert(k, v) PROVE CacheInv'
    <2>1. /\ UNCHANGED << frame, reading >>
          /\ cache' = Inserted(cache, k, v, max_cache_items)
          /\ inner' = With(inner, k, v)
      BY <1>8 DEF Insert
    <2>2. /\ \E m \in 0 .. max_cache_items : Aged(cache', m)
          /\ DOMAIN cache' \subseteq DOMAIN cache \cup {k}
          /\ \A x \in DOMAIN cache' : cache'[x].value = IF x = k THEN v ELSE cache[x].value
      BY <1>1, <1>2, <2>1, InsertedAged
    <2>3. /\ DOMAIN inner' = DOMAIN inner \cup {k}
          /\ \A x \in DOMAIN inner' : inner'[x] = IF x = k THEN v ELSE inner[x]
          /\ inner' \in [DOMAIN inner' -> MapValue]
      BY <1>1, <2>1 DEF With
    <2>4. \A x \in DOMAIN cache' : x \in DOMAIN inner' /\ cache'[x].value = inner'[x]
      BY <1>1, <2>2, <2>3
    <2> QED
      BY <1>1, <2>1, <2>2, <2>3, <2>4, CacheInvKept
  <1>9. ASSUME NEW k \in Key, Remove(k) PROVE CacheInv'
    <2>1. /\ UNCHANGED << frame, reading >>
          /\ cache' = Removed(cache, k) /\ inner' = Without(inner, {k})
      BY <1>9 DEF Remove
    <2>2. /\ \E m \in 0 .. n : Aged(cache', m)
          /\ DOMAIN cache' = DOMAIN cache \ {k}
          /\ \A x \in DOMAIN cache \ {k} : cache'[x].value = cache[x].value
      BY <1>2, <1>3, <2>1, RemovedAged
    <2>3. /\ DOMAIN inner' = DOMAIN inner \ {k} /\ inner' \in [DOMAIN inner' -> MapValue]
          /\ \A x \in DOMAIN inner \ {k} : inner'[x] = inner[x]
      BY <1>1, <2>1 DEF Without
    <2>4. \A x \in DOMAIN cache' : x \in DOMAIN inner' /\ cache'[x].value = inner'[x]
      BY <1>1, <2>2, <2>3
    <2> QED
      BY <1>1, <1>4, <2>1, <2>2, <2>3, <2>4, CacheInvKept
  <1>10. ASSUME NEW k1 \in Key1, RemovePartial(k1) PROVE CacheInv'
    <2>1. /\ UNCHANGED << frame, reading >> /\ cache' = EmptyCache
          /\ inner' = Without(inner, DOMAIN EntriesOf(k1))
      BY <1>10 DEF RemovePartial
    <2>2. DOMAIN inner' \subseteq Key /\ inner' \in [DOMAIN inner' -> MapValue]
      BY <1>1, <2>1 DEF Without
    <2> QED
      BY <1>1, <1>e, <2>1, <2>2, EmptyAged, CacheInvKept
  <1>11. ASSUME NEW keys \in SUBSET DOMAIN inner, \A k, l \in keys : k = l, PopKey(keys)
         PROVE  CacheInv'
    <2>1. /\ UNCHANGED << frame, reading >> /\ inner' = Without(inner, keys)
          /\ cache' = IF keys = {} THEN cache ELSE Removed(cache, CHOOSE k \in keys : TRUE)
      BY <1>11 DEF PopKey
    <2>d. /\ DOMAIN inner' = DOMAIN inner \ keys /\ inner' \in [DOMAIN inner' -> MapValue]
          /\ \A x \in DOMAIN inner \ keys : inner'[x] = inner[x]
      BY <1>1, <2>1 DEF Without
    <2>2. CASE keys = {}
      <3>1. cache' = cache /\ \A x \in DOMAIN cache : x \in DOMAIN inner' /\ cache[x].value = inner'[x]
        BY <1>1, <2>1, <2>2, <2>d
      <3> QED
        BY <1>1, <1>2, <2>1, <2>d, <3>1, CacheInvKept
    <2>3. CASE keys # {}
      <3> DEFINE k == CHOOSE x \in keys : TRUE
      <3>1. keys = {k}
        BY <1>11, <2>3
      <3>2. cache' = Removed(cache, k)
        BY <2>1, <2>3
      <3> HIDE DEF k
      <3>3. /\ \E m \in 0 .. n : Aged(cache', m)
            /\ DOMAIN cache' = DOMAIN cache \ {k}
            /\ \A x \in DOMAIN cache \ {k} : cache'[x].value = cache[x].value
        BY <1>2, <1>3, <3>2, RemovedAged
      <3>4. \A x \in DOMAIN cache' : x \in DOMAIN inner' /\ cache'[x].value = inner'[x]
        BY <1>1, <2>d, <3>1, <3>3
      <3> QED
        BY <1>1, <1>4, <2>1, <2>d, <3>3, <3>4, CacheInvKept
    <2> QED
      BY <2>2, <2>3
  <1>12. CASE PopFirst \/ PopLast
    BY <1>1, <1>11, <1>12, AtMostOne DEF PopFirst, PopLast
  <1>13. CASE ClearMap
    <2>1. UNCHANGED << frame, reading >> /\ cache' = EmptyCache /\ inner' = EmptyMap
      BY <1>13 DEF ClearMap
    <2>2. DOMAIN inner' \subseteq Key /\ inner' \in [DOMAIN inner' -> MapValue]
      BY <2>1 DEF EmptyMap
    <2> QED
      BY <1>1, <1>e, <2>1, <2>2, EmptyAged, CacheInvKept
  <1>14. CASE Reopen
    <2>1. UNCHANGED << frame, inner >> /\ cache' = EmptyCache /\ reading' = [r \in Reader |-> NoKey]
      BY <1>14 DEF Reopen
    <2> QED
      BY <1>1, <1>e, <2>1, EmptyAged, CacheInvKept
  <1>15. ASSUME UNCHANGED << frame, inner, cache, reading >> PROVE CacheInv'
    BY <1>1, <1>2, <1>15, CacheInvKept
  <1>16. CASE UNCHANGED cacheVars
    BY <1>15, <1>16 DEF cacheVars, frame
  <1>17. CASE CacheNext
    BY <1>5, <1>6, <1>7, <1>8, <1>9, <1>10, <1>12, <1>13, <1>14, <1>15, <1>17
       DEF CacheNext, SizeOf, FirstKeyValue, LastKeyValue, IterUpperBound, Iter, RangeOf, Bypass
  <1> QED
    BY <1>16, <1>17

\* What is cached is what is stored, in at most max_cache_items entries with
\* the ages of a list (CachedStableBTreeMap and CachedStableMultimap).
THEOREM CacheIsCoherent == CacheSpec => []CacheCoherent
  <1>1. CacheInv => CacheCoherent
    <2> SUFFICES ASSUME CacheInv PROVE CacheCoherent
      OBVIOUS
    <2>1. max_cache_items \in Nat
      BY CacheCapsAssumption DEF CacheInv, CacheTypeOK
    <2>2. PICK n \in 0 .. max_cache_items : Aged(cache, n)
      BY DEF CacheInv
    <2>3. n \in Nat /\ n <= max_cache_items
      BY <2>1
    <2>4. Cardinality(DOMAIN cache) = n /\ {cache[k].age : k \in DOMAIN cache} = 0 .. n - 1
      BY <2>2, <2>3, AgedCardinality
    <2> QED
      BY <2>3, <2>4 DEF CacheInv, CacheCoherent
  <1> QED
    BY <1>1, CacheInvInit, CacheInvNext, PTL DEF CacheSpec

-----------------------------------------------------------------------------
(* The cached maps are ordered maps *)

\* A new structure is an empty map.
LEMMA MapInit == CacheInit => Plain!OMInit
  BY DEF CacheInit, Plain!OMInit, EmptyMap, Plain!EmptyMap

\* The first region of get() answers from the cache or not at all.
LEMMA MapLookUp ==
  ASSUME CacheInv, NEW r \in Reader, NEW k \in Key, LookUp(r, k)
  PROVE  Plain!OMGet(k) \/ UNCHANGED << inner, answered >>
  <1>1. CASE k \in DOMAIN cache
    <2>1. cache[k].value = Lookup(inner, k)
      BY <1>1 DEF CacheInv, Lookup
    <2> QED
      BY <1>1, <2>1 DEF LookUp, IsCached, Answered, Plain!OMGet, Plain!Answer, Plain!Lookup, Lookup
  <1>2. CASE k \notin DOMAIN cache
    BY <1>2 DEF LookUp, IsCached
  <1> QED
    BY <1>1, <1>2

\* The second region answers with what stable memory has then.
LEMMA MapFill ==
  ASSUME CacheInv, NEW r \in Reader, Fill(r)
  PROVE  \E k \in Key : Plain!OMGet(k)
  <1>1. reading[r] \in Key
    BY DEF CacheInv, CacheTypeOK, Fill
  <1>2. Plain!OMGet(reading[r])
    BY DEF Fill, Answered, Plain!OMGet, Plain!Answer, Plain!Lookup, Lookup
  <1> QED
    BY <1>1, <1>2

\* contains_key() may trust the cache.
LEMMA MapContainsKey ==
  ASSUME CacheInv, NEW k \in Key, ContainsKey(k)
  PROVE  Plain!OMContainsKey(k)
  <1>1. (k \in DOMAIN cache \/ k \in DOMAIN inner) = (k \in DOMAIN inner)
    BY DEF CacheInv
  <1> QED
    BY <1>1 DEF ContainsKey, Answered, IsCached, Plain!OMContainsKey, Plain!Answer

\* is_empty() asks the cache first; a cache of an empty map is empty.
LEMMA MapSizeOf ==
  ASSUME CacheInv, SizeOf
  PROVE  Plain!OMSize
  <1>1. ASSUME inner = EmptyMap PROVE cache = EmptyCache
    <2>1. DOMAIN inner = {}
      BY <1>1 DEF EmptyMap
    <2>2. DOMAIN cache = {}
      BY <2>1 DEF CacheInv
    <2>3. cache \in [DOMAIN cache -> [value : MapValue, age : Nat]]
      BY DEF CacheInv, Aged
    <2> QED
      BY <2>2, <2>3 DEF EmptyCache
  <1>2. (cache = EmptyCache /\ inner = EmptyMap) = (inner = EmptyMap)
    BY <1>1
  <1>3. Plain!Cardinality(DOMAIN inner) = Cardinality(DOMAIN inner)
    BY DEF Cardinality, Plain!Cardinality
  <1>4. answered' = [op |-> "size", result |-> [len |-> Cardinality(DOMAIN inner),
                                                is_empty |-> inner = EmptyMap]]
    BY <1>2 DEF SizeOf, Answered
  <1> QED
    BY <1>3, <1>4 DEF SizeOf, Plain!OMSize, Plain!Answer, EmptyMap, Plain!EmptyMap

\* The methods that bypass the cache, and the writers but remove_partial().
LEMMA MapOthers ==
  /\ \A k \in Key : IterUpperBound(k) => Plain!OMIterUpperBound(k)
  /\ FirstKeyValue => Plain!OMFirst
  /\ LastKeyValue => Plain!OMLast
  /\ Iter => Plain!OMIterAll
  /\ \A k \in Key, v \in MapValue : Insert(k, v) => Plain!OMInsert(k, v)
  /\ \A k \in Key : Remove(k) => Plain!OMRemove(k)
  /\ PopFirst => Plain!OMPop(FirstKeys(DOMAIN inner))
  /\ PopLast => Plain!OMPop(LastKeys(DOMAIN inner))
  /\ ClearMap => Plain!OMClear
  <1>1. \A k \in Key : IterUpperBound(k) => Plain!OMIterUpperBound(k)
    BY DEF IterUpperBound, Bypass, Answered, UpperBound, Plain!OMIterUpperBound, Plain!Answer,
           Restricted, Plain!Restricted, LastKeys, Plain!LastKeys, Below, Plain!Below
  <1>2. FirstKeyValue => Plain!OMFirst
    BY DEF FirstKeyValue, Bypass, Answered, Plain!OMFirst, Plain!Answer,
           Restricted, Plain!Restricted, FirstKeys, Plain!FirstKeys, Below, Plain!Below
  <1>3. LastKeyValue => Plain!OMLast
    BY DEF LastKeyValue, Bypass, Answered, Plain!OMLast, Plain!Answer,
           Restricted, Plain!Restricted, LastKeys, Plain!LastKeys, Below, Plain!Below
  <1>4. Iter => Plain!OMIterAll
    BY DEF Iter, Bypass, Answered, Plain!OMIterAll, Plain!Answer
  <1>5. \A k \in Key, v \in MapValue : Insert(k, v) => Plain!OMInsert(k, v)
    BY DEF Insert, Answered, Plain!OMInsert, Plain!Answer, With, Plain!With, Lookup, Plain!Lookup
  <1>6. \A k \in Key : Remove(k) => Plain!OMRemove(k)
    BY DEF Remove, Answered, Plain!OMRemove, Plain!Answer, Without, Plain!Without, Lookup, Plain!Lookup
  <1>7. ASSUME NEW keys, PopKey(keys) PROVE Plain!OMPop(keys)
    BY <1>7 DEF PopKey, Answered, Plain!OMPop, Plain!Answer, Without, Plain!Without,
                Restricted, Plain!Restricted
  <1>8. ClearMap => Plain!OMClear
    BY DEF ClearMap, Answered, Plain!OMClear, Plain!Answer, EmptyMap, Plain!EmptyMap
  <1> QED
    BY <1>1, <1>2, <1>3, <1>4, <1>5, <1>6, <1>7, <1>8 DEF PopFirst, PopLast

\* A range over all second keys is the contract's part of the first key.
LEMMA MapPartial ==
  ASSUME CacheInv, NEW k1 \in Key1
  PROVE  /\ RangeOf(k1) => Plain!OMRange(k1)
         /\ RemovePartial(k1) => Plain!OMRemovePartial(k1)
  <1>1. EntriesOf(k1) = Restricted(inner, {k \in DOMAIN inner : k[1] = k1})
    BY EntriesOfFirst DEF CacheInv
  <1>2. DOMAIN EntriesOf(k1) = {k \in DOMAIN inner : k[1] = k1}
    BY <1>1 DEF Restricted
  <1>3. RangeOf(k1) => Plain!OMRange(k1)
    BY <1>1 DEF RangeOf, Bypass, Answered, Plain!OMRange, Plain!Answer, Restricted, Plain!Restricted
  <1>4. RemovePartial(k1) => Plain!OMRemovePartial(k1)
    BY <1>2 DEF RemovePartial, Answered, Plain!OMRemovePartial, Plain!Answer, Without, Plain!Without
  <1> QED
    BY <1>3, <1>4

\* Every step of the cached maps is a step of the ordered map, or none.
LEMMA MapNext ==
  CacheInv /\ [CacheNext]_cacheVars => [Plain!OMNext]_<< inner, answered >>
  <1> SUFFICES ASSUME CacheInv, [CacheNext]_cacheVars
               PROVE  Plain!OMNext \/ UNCHANGED << inner, answered >>
    OBVIOUS
  <1>k. Plain!Key = Key /\ Plain!FirstKeys(DOMAIN inner) = FirstKeys(DOMAIN inner)
        /\ Plain!LastKeys(DOMAIN inner) = LastKeys(DOMAIN inner)
    BY DEF Key, Plain!Key, FirstKeys, Plain!FirstKeys, LastKeys, Plain!LastKeys, Below, Plain!Below
  <1>1. ASSUME NEW r \in Reader, Fill(r) PROVE Plain!OMNext
    BY <1>1, <1>k, MapFill DEF Plain!OMNext
  <1>2. ASSUME NEW r \in Reader, NEW k \in Key, LookUp(r, k)
        PROVE  Plain!OMNext \/ UNCHANGED << inner, answered >>
    BY <1>2, <1>k, MapLookUp DEF Plain!OMNext
  <1>3. ASSUME NEW k \in Key, ContainsKey(k) \/ Remove(k) \/ IterUpperBound(k) PROVE Plain!OMNext
    BY <1>3, <1>k, MapContainsKey, MapOthers DEF Plain!OMNext
  <1>4. ASSUME NEW k \in Key, NEW v \in MapValue, Insert(k, v) PROVE Plain!OMNext
    BY <1>4, <1>k, MapOthers DEF Plain!OMNext
  <1>5. ASSUME NEW k1 \in Key1, RangeOf(k1) \/ RemovePartial(k1) PROVE Plain!OMNext
    BY <1>5, MapPartial DEF Plain!OMNext
  <1>6. CASE SizeOf \/ FirstKeyValue \/ LastKeyValue \/ Iter \/ ClearMap
    BY <1>6, MapSizeOf, MapOthers DEF Plain!OMNext
  <1>7. CASE PopFirst \/ PopLast
    BY <1>7, <1>k, MapOthers DEF Plain!OMNext
  <1>8. CASE Reopen
    BY <1>8 DEF Reopen
  <1>9. CASE UNCHANGED cacheVars
    BY <1>9 DEF cacheVars
  <1> QED
    BY <1>1, <1>2, <1>3, <1>4, <1>5, <1>6, <1>7, <1>8, <1>9 DEF CacheNext

\* The cache is invisible: the cached maps implement the plain map of the
\* traits, whatever is cached, evicted, read by two readers at a time or lost.
THEOREM CacheIsInvisible == CacheSpec => IsOrderedMap
  BY MapInit, MapNext, CacheInvInit, CacheInvNext, PTL DEF CacheSpec, IsOrderedMap, Plain!OMSpec
=============================================================================
