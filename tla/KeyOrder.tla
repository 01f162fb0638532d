------------------------------ MODULE KeyOrder ------------------------------
(***************************************************************************)
(* Maps from pairs of keys to values, and the order of the pairs.          *)
(***************************************************************************)
EXTENDS Integers, FiniteSets

CONSTANTS
  Key1, Key2,   \* the values of the two halves of a key
  MapValue,     \* the values stored
  Absent        \* the None of Option<V>

ASSUME KeysAssumption == Key1 \subseteq Int /\ Key2 \subseteq Int
ASSUME AbsentAssumption == Absent \notin MapValue

Key == Key1 \X Key2

\* The order of the tuple (K1, K2)
Below(k, l) == k[1] < l[1] \/ (k[1] = l[1] /\ k[2] < l[2])

EmptyMap == [k \in {} |-> Absent]

Lookup(f, k) == IF k \in DOMAIN f THEN f[k] ELSE Absent

With(f, k, v) == [x \in DOMAIN f \cup {k} |-> IF x = k THEN v ELSE f[x]]

Without(f, keys) == [x \in DOMAIN f \ keys |-> f[x]]

\* The smallest and the largest key, in a set of none or one
FirstKeys(keys) == {k \in keys : \A l \in keys : l = k \/ Below(k, l)}
LastKeys(keys) == {k \in keys : \A l \in keys : l = k \/ Below(l, k)}

Restricted(f, keys) == [k \in keys |-> f[k]]

\* The answer of an iterator is the part of the map it goes through: its
\* order is the order of the keys.
Entries(f, lo, hi) ==
  Restricted(f, {k \in DOMAIN f : ~ Below(k, lo) /\ ~ Below(hi, k)})
=============================================================================
