-------------------------- MODULE RingBufferProofs --------------------------
(***************************************************************************)
(* Proofs about RingBuffer, for all values, capacities and counts: the     *)
(* indices stay inside the vector, no expect() panics, and the buffer is a *)
(* bounded history.                                                        *)
(***************************************************************************)
EXTENDS RingBuffer, Integers, SequenceTheorems, TLAPS

\* An offset of at most twice the capacity wraps around at most once.
LEMMA ModOnce ==
  ASSUME NEW x \in Nat, NEW c \in Nat \ {0}, x < c + c
  PROVE  x % c = IF x < c THEN x ELSE x - c
  <1> DEFINE q == x \div c
             r == x % c
  <1>1. q \in Int /\ r \in 0 .. c - 1 /\ x = c * q + r
    BY Z3
  <1> HIDE DEF q, r
  <1>2. ASSUME q <= -1 PROVE FALSE
    <2>1. c * q <= -c
      BY <1>1, <1>2, Z3
    <2> QED
      BY <1>1, <2>1
  <1>3. ASSUME q >= 2 PROVE FALSE
    <2>1. c * q >= c + c
      BY <1>1, <1>3, Z3
    <2> QED
      BY <1>1, <2>1
  <1>4. q = 0 \/ q = 1
    BY <1>1, <1>2, <1>3
  <1>5. r = IF x < c THEN x ELSE x - c
    BY <1>1, <1>4, Z3
  <1> QED
    BY <1>5 DEF r

\* offset_to_index for the offsets the buffer uses.
LEMMA OffsetToIndexValue ==
  ASSUME NEW ix \in Indices, ix.start < ix.capacity,
         NEW offset \in Nat, offset <= ix.capacity
  PROVE  /\ OffsetToIndex(ix, offset) = IF ix.start + offset < ix.capacity
                                        THEN ix.start + offset
                                        ELSE ix.start + offset - ix.capacity
         /\ OffsetToIndex(ix, offset) \in Nat
         /\ OffsetToIndex(ix, offset) < ix.capacity
  <1>1. ix.start \in Nat /\ ix.capacity \in Nat \ {0} /\ ix.start + offset < ix.capacity + ix.capacity
    BY DEF Indices
  <1> DEFINE x == ix.start + offset
             c == ix.capacity
  <1>2. x \in Nat /\ c \in Nat \ {0} /\ x < c + c /\ OffsetToIndex(ix, offset) = x % c
    BY <1>1 DEF OffsetToIndex
  <1> HIDE DEF x, c
  <1>3. x % c = IF x < c THEN x ELSE x - c
    BY <1>2, ModOnce
  <1>4. x % c \in Nat /\ x % c < c
    BY <1>2, <1>3
  <1>5. /\ OffsetToIndex(ix, offset) = IF x < c THEN x ELSE x - c
        /\ OffsetToIndex(ix, offset) \in Nat
        /\ OffsetToIndex(ix, offset) < c
    BY <1>2, <1>3, <1>4
  <1> QED
    BY <1>1, <1>5 DEF x, c

\* nth_element_from_end counts from the end of the history.
LEMMA IndexOfNthFromEndValue ==
  ASSUME NEW ix \in Indices, ix.capacity \in Capacities, ix.len <= ix.capacity,
         NEW n \in Nat, n < ix.len
  PROVE  IndexOfNthFromEnd(ix, n) = OffsetToIndex(ix, ix.len - n - 1)
  <1>1. ix.len \in Nat /\ ix.len < U64 /\ U64 \in Nat \ {0}
    BY U64Assumption, CapacitiesAssumption DEF Indices
  <1>2. (n + 1) % U64 = n + 1
    BY <1>1, ModOnce
  <1>3. ix.len - (n + 1) \in Nat /\ ix.len - (n + 1) < ix.len /\ ix.len - (n + 1) = ix.len - n - 1
    BY <1>1
  <1> QED
    BY <1>1, <1>2, <1>3 DEF IndexOfNthFromEnd, IndexOfNth

-----------------------------------------------------------------------------
(* The type invariant *)

\* A new buffer is empty.
LEMMA InitType == Init => TypeOK
  BY CapacitiesAssumption DEF Init, NewIndices, Indices, TypeOK

\* The index that push writes to is in the vector, or just after it; if the
\* buffer is full it is that of the oldest element.
LEMMA NewIndexFacts ==
  ASSUME TypeOK
  PROVE  /\ OffsetToIndex(indices, indices.len) \in Nat
         /\ OffsetToIndex(indices, indices.len) <= Len(data)
         /\ OffsetToIndex(indices, indices.len) < indices.capacity
         /\ indices.len = indices.capacity =>
              /\ OffsetToIndex(indices, indices.len) = indices.start
              /\ Len(data) = indices.capacity
  <1> DEFINE i == OffsetToIndex(indices, indices.len)
             s == indices.start
             l == indices.len
             c == indices.capacity
             d == Len(data)
  <1>1. /\ s \in Nat /\ l \in Nat /\ c \in Nat /\ d \in Nat
        /\ s < c /\ l <= c /\ d <= c
        /\ IF s = 0 THEN l <= d ELSE d = c
    BY DEF TypeOK, Indices
  <1>2. i = (IF s + l < c THEN s + l ELSE s + l - c) /\ i \in Nat /\ i < c
    BY OffsetToIndexValue DEF TypeOK, Indices
  <1> HIDE DEF i, s, l, c, d
  <1>3. i <= d /\ (l = c => i = s /\ d = c)
    BY <1>1, <1>2
  <1> QED
    BY <1>2, <1>3 DEF i, s, l, c, d

\* Every element of the history is in the vector.
LEMMA IndexInData ==
  ASSUME TypeOK, NEW n \in Nat, n < indices.len
  PROVE  OffsetToIndex(indices, n) \in Nat /\ OffsetToIndex(indices, n) < Len(data)
  <1>1. /\ indices \in Indices /\ indices.start \in Nat /\ indices.len \in Nat /\ indices.capacity \in Nat
        /\ indices.start < indices.capacity /\ indices.len <= indices.capacity /\ Len(data) \in Nat
        /\ IF indices.start = 0 THEN indices.len <= Len(data) ELSE Len(data) = indices.capacity
    BY DEF TypeOK, Indices
  <1>2. /\ OffsetToIndex(indices, n) = IF indices.start + n < indices.capacity
                                       THEN indices.start + n
                                       ELSE indices.start + n - indices.capacity
        /\ OffsetToIndex(indices, n) \in Nat /\ OffsetToIndex(indices, n) < indices.capacity
    BY <1>1, OffsetToIndexValue
  <1> QED
    BY <1>1, <1>2

\* The record that push leaves in the cell.
LEMMA PushIndicesFacts ==
  ASSUME TypeOK
  PROVE  /\ PushIndices(indices) \in Indices
         /\ PushIndices(indices).capacity = indices.capacity
         /\ indices.len = indices.capacity =>
              /\ PushIndices(indices).len = indices.len
              /\ PushIndices(indices).start =
                   IF indices.start + 1 < indices.capacity THEN indices.start + 1 ELSE 0
         /\ indices.len # indices.capacity =>
              /\ PushIndices(indices).len = indices.len + 1
              /\ PushIndices(indices).start = indices.start
  <1>1. /\ indices \in Indices /\ indices.start < indices.capacity /\ indices.len <= indices.capacity
        /\ indices.start \in Nat /\ indices.len \in Nat /\ indices.capacity \in Nat
    BY DEF TypeOK, Indices
  <1>2. CASE indices.len = indices.capacity
    <2>1. /\ OffsetToIndex(indices, 1) \in Nat
          /\ OffsetToIndex(indices, 1) =
               IF indices.start + 1 < indices.capacity THEN indices.start + 1 ELSE 0
      <3>1. 1 <= indices.capacity
        BY <1>1
      <3> QED
        BY <1>1, <3>1, OffsetToIndexValue
    <2>2. PushIndices(indices) = [indices EXCEPT !.start = OffsetToIndex(indices, 1)]
      BY <1>2 DEF PushIndices, IncreaseStart
    <2> QED
      BY <1>1, <1>2, <2>1, <2>2 DEF Indices
  <1>3. CASE indices.len # indices.capacity
    <2>1. Least(indices.len + 1, indices.capacity) = indices.len + 1
      BY <1>1, <1>3 DEF Least
    <2>2. PushIndices(indices) = [indices EXCEPT !.len = indices.len + 1]
      BY <1>3, <2>1 DEF PushIndices, IncreaseLen
    <2> QED
      BY <1>1, <1>3, <2>2 DEF Indices
  <1> QED
    BY <1>2, <1>3

\* The record that pop and truncate leave in the cell.
LEMMA DecreaseLenFacts ==
  ASSUME TypeOK, NEW n \in Nat
  PROVE  /\ DecreaseLen(indices, n) \in Indices
         /\ DecreaseLen(indices, n).capacity = indices.capacity
         /\ DecreaseLen(indices, n).start = indices.start
         /\ DecreaseLen(indices, n).len = IF n <= indices.len THEN indices.len - n ELSE 0
  BY DEF TypeOK, DecreaseLen, Indices

\* The elements resize copies are elements of the vector, the latest of the
\* history in order.
LEMMA PreservedFacts ==
  ASSUME TypeOK, NEW n \in Nat, n <= indices.len
  PROVE  /\ Preserved(n) \in Seq(Value)
         /\ Len(Preserved(n)) = n
         /\ \A i \in 1 .. n : Preserved(n)[i] = Items[indices.len - n + i]
  <1>1. ASSUME NEW i \in 1 .. n
        PROVE  /\ Get(IndexOfNthFromEnd(indices, n - i)) \in Value
               /\ Get(IndexOfNthFromEnd(indices, n - i)) = Items[indices.len - n + i]
    <2> DEFINE k == indices.len - n + i
               j == OffsetToIndex(indices, k - 1)
    <2>1. indices.len \in Nat /\ k \in 1 .. indices.len /\ n - i \in Nat /\ n - i < indices.len
          /\ indices.len - (n - i) - 1 = k - 1 /\ k - 1 \in Nat /\ k - 1 < indices.len
      BY DEF TypeOK, Indices
    <2>2. IndexOfNthFromEnd(indices, n - i) = j
      BY <2>1, IndexOfNthFromEndValue DEF TypeOK
    <2>3. Items[k] = data[j + 1]
      BY <2>1 DEF Items
    <2>4. j \in Nat /\ j < Len(data)
      BY <2>1, IndexInData
    <2> HIDE DEF j
    <2>5. Get(j) = data[j + 1] /\ data[j + 1] \in Value
      BY <2>4 DEF Get, TypeOK
    <2> QED
      BY <2>2, <2>3, <2>5
  <1>2. Preserved(n) = [i \in 1 .. n |-> Get(IndexOfNthFromEnd(indices, n - i))]
    BY DEF Preserved
  <1> QED
    BY <1>1, <1>2

\* push keeps the indices inside the vector.
LEMMA PushType ==
  ASSUME TypeOK, NEW v \in Value, Push(v)
  PROVE  TypeOK'
  <1> DEFINE new_index == OffsetToIndex(indices, indices.len)
  <1>1. /\ data \in Seq(Value) /\ Len(data) \in Nat /\ Len(data) <= indices.capacity
        /\ indices.start \in Nat /\ indices.len \in Nat /\ indices.capacity \in Nat
        /\ indices.start < indices.capacity /\ indices.len <= indices.capacity
        /\ IF indices.start = 0 THEN indices.len <= Len(data) ELSE Len(data) = indices.capacity
    BY DEF TypeOK, Indices
  <1>2. /\ new_index \in Nat /\ new_index <= Len(data) /\ new_index < indices.capacity
        /\ indices.len = indices.capacity => new_index = indices.start /\ Len(data) = indices.capacity
        /\ new_index = IF indices.start + indices.len < indices.capacity
                       THEN indices.start + indices.len
                       ELSE indices.start + indices.len - indices.capacity
    BY NewIndexFacts, OffsetToIndexValue DEF TypeOK, Indices
  <1>3. /\ indices' = PushIndices(indices)
        /\ data' = IF new_index = Len(data) THEN Append(data, v)
                   ELSE [data EXCEPT ![new_index + 1] = v]
        /\ returned' = IF indices.len = indices.capacity THEN Get(new_index) ELSE None
    BY DEF Push
  <1> HIDE DEF new_index
  <1>4. /\ data' \in Seq(Value)
        /\ Len(data') = IF new_index = Len(data) THEN Len(data) + 1 ELSE Len(data)
    <2>1. CASE new_index = Len(data)
      BY <1>1, <1>3, <2>1
    <2>2. CASE new_index # Len(data)
      <3>1. data' = [data EXCEPT ![new_index + 1] = v] /\ new_index + 1 \in 1 .. Len(data)
        BY <1>1, <1>2, <1>3, <2>2
      <3> QED
        BY <1>1, <2>2, <3>1
    <2> QED
      BY <2>1, <2>2
  <1>5. returned' \in Value \cup {None}
    BY <1>1, <1>2, <1>3 DEF Get
  <1>6. /\ indices' \in Indices
        /\ indices'.capacity = indices.capacity
        /\ indices.len = indices.capacity =>
             /\ indices'.len = indices.len
             /\ indices'.start = IF indices.start + 1 < indices.capacity THEN indices.start + 1 ELSE 0
        /\ indices.len # indices.capacity =>
             /\ indices'.len = indices.len + 1 /\ indices'.start = indices.start
    BY <1>3, PushIndicesFacts
  <1>7. /\ indices'.start < indices'.capacity /\ indices'.len <= indices'.capacity
        /\ Len(data') <= indices'.capacity
        /\ IF indices'.start = 0 THEN indices'.len <= Len(data') ELSE Len(data') = indices'.capacity
    <2>1. CASE indices.len = indices.capacity
      BY <1>1, <1>2, <1>4, <1>6, <2>1
    <2>2. CASE indices.len # indices.capacity
      BY <1>1, <1>2, <1>4, <1>6, <2>2
    <2> QED
      BY <2>1, <2>2
  <1> QED
    BY <1>4, <1>5, <1>6, <1>7 DEF TypeOK

\* Every operation keeps the indices inside the vector.
LEMMA NextType == TypeOK /\ [Next]_vars => TypeOK'
  <1> SUFFICES ASSUME TypeOK, [Next]_vars PROVE TypeOK'
    OBVIOUS
  <1>0. /\ indices \in Indices /\ indices.start \in Nat /\ indices.len \in Nat
        /\ indices.capacity \in Nat /\ indices.capacity \in Capacities /\ data \in Seq(Value)
    BY DEF TypeOK, Indices
  <1>1. ASSUME NEW v \in Value, Push(v) PROVE TypeOK'
    BY <1>1, PushType
  <1>2. CASE Pop
    <2>1. CASE indices.len = 0
      BY <1>2, <2>1 DEF Pop, TypeOK
    <2>2. CASE indices.len # 0
      <3>1. indices.len - 1 \in Nat /\ indices.len - 1 < indices.len /\ 1 <= indices.len
        BY <1>0, <2>2
      <3>2. Get(OffsetToIndex(indices, indices.len - 1)) \in Value
        BY <1>0, <3>1, IndexInData DEF Get
      <3>3. indices' = DecreaseLen(indices, 1) /\ data' = data
            /\ returned' = Get(OffsetToIndex(indices, indices.len - 1))
        BY <1>2, <2>2 DEF Pop
      <3>4. indices' \in Indices /\ indices'.capacity = indices.capacity
            /\ indices'.start = indices.start /\ indices'.len = indices.len - 1
        BY <3>1, <3>3, DecreaseLenFacts
      <3> QED
        BY <1>0, <3>1, <3>2, <3>3, <3>4 DEF TypeOK
    <2> QED
      BY <2>1, <2>2
  <1>3. ASSUME NEW n \in Counts, Truncate(n) PROVE TypeOK'
    <2>1. n \in Nat /\ indices' = DecreaseLen(indices, n) /\ data' = data /\ returned' = None
      BY <1>3, CountsAssumption DEF Truncate
    <2>2. /\ indices' \in Indices /\ indices'.capacity = indices.capacity
          /\ indices'.start = indices.start
          /\ indices'.len \in Nat /\ indices'.len <= indices.len
      BY <1>0, <2>1, DecreaseLenFacts
    <2> QED
      BY <1>0, <2>1, <2>2 DEF TypeOK
  <1>4. CASE Clear
    BY <1>0, <1>4, CapacitiesAssumption DEF Clear, NewIndices, Indices, TypeOK
  <1>5. ASSUME NEW c \in Capacities, Resize(c) PROVE TypeOK'
    <2>1. CASE c = indices.capacity
      BY <1>5, <2>1 DEF Resize, TypeOK
    <2>2. CASE c # indices.capacity
      <3> DEFINE n == Least(indices.len, c)
      <3>1. c \in Nat \ {0} /\ n \in Nat /\ n <= indices.len /\ n <= c
        BY <1>0, CapacitiesAssumption DEF Least
      <3>2. /\ data' = Preserved(n) /\ returned' = None
            /\ indices' = IncreaseLen(NewIndices(c), n)
        BY <1>5, <2>2 DEF Resize
      <3> HIDE DEF n
      <3>3. indices' = [start |-> 0, len |-> n, capacity |-> c]
        BY <3>1, <3>2 DEF IncreaseLen, NewIndices, Least
      <3>4. data' \in Seq(Value) /\ Len(data') = n
        BY <3>1, <3>2, PreservedFacts
      <3> QED
        BY <3>1, <3>2, <3>3, <3>4 DEF TypeOK, Indices
    <2> QED
      BY <2>1, <2>2
  <1>6. CASE UNCHANGED vars
    BY <1>6 DEF vars, TypeOK
  <1> QED
    BY <1>1, <1>2, <1>3, <1>4, <1>5, <1>6 DEF Next

\* The indices of the ring buffer always describe a part of the vector that is
\* there, for every capacity.
THEOREM TypeCorrect == Spec => []TypeOK
  BY InitType, NextType, PTL DEF Spec

\* No expect() of push or resize ever panics.
THEOREM NoPanic == Spec => []NeverPanics
  <1>1. TypeOK => NeverPanics
    <2> SUFFICES ASSUME TypeOK PROVE NeverPanics
      OBVIOUS
    <2>1. indices.len \in Nat /\ Len(data) \in Nat /\ indices \in Indices
          /\ indices.capacity \in Capacities /\ indices.len <= indices.capacity
      BY DEF TypeOK, Indices
    <2>2. ASSUME NEW offset \in 0 .. indices.len - 1
          PROVE  IndexOfNthFromEnd(indices, offset) \in 0 .. Len(data) - 1
      <3>1. /\ offset \in Nat /\ offset < indices.len
            /\ indices.len - offset - 1 \in Nat /\ indices.len - offset - 1 < indices.len
        BY <2>1
      <3>2. IndexOfNthFromEnd(indices, offset) = OffsetToIndex(indices, indices.len - offset - 1)
        BY <2>1, <3>1, IndexOfNthFromEndValue
      <3>3. OffsetToIndex(indices, indices.len - offset - 1) \in Nat
            /\ OffsetToIndex(indices, indices.len - offset - 1) < Len(data)
        BY <3>1, IndexInData
      <3> QED
        BY <2>1, <3>2, <3>3
    <2>3. /\ OffsetToIndex(indices, indices.len) <= Len(data)
          /\ indices.len = indices.capacity => OffsetToIndex(indices, indices.len) < Len(data)
      BY <2>1, NewIndexFacts DEF TypeOK, Indices
    <2> QED
      BY <2>2, <2>3 DEF NeverPanics
  <1> QED
    BY <1>1, TypeCorrect, PTL

-----------------------------------------------------------------------------
(* The refinement *)

\* The history is a sequence of values, each at its place in the vector.
ItemsInPlace ==
  /\ Items \in Seq(Value)
  /\ Len(Items) = indices.len
  /\ \A n \in 1 .. indices.len : Items[n] = data[OffsetToIndex(indices, n - 1) + 1]

\* The indices of a well-formed buffer select such a history.
LEMMA ItemsFacts == TypeOK => ItemsInPlace
  <1> SUFFICES ASSUME TypeOK PROVE ItemsInPlace
    OBVIOUS
  <1>1. indices.len \in Nat /\ data \in Seq(Value)
    BY DEF TypeOK, Indices
  <1>2. ASSUME NEW n \in 1 .. indices.len
        PROVE  data[OffsetToIndex(indices, n - 1) + 1] \in Value
    <2>1. n - 1 \in Nat /\ n - 1 < indices.len
      BY <1>1
    <2>2. OffsetToIndex(indices, n - 1) + 1 \in 1 .. Len(data)
      BY <1>1, <2>1, IndexInData
    <2> QED
      BY <1>1, <2>2
  <1> QED
    BY <1>1, <1>2 DEF Items, ItemsInPlace

\* The elements of the history, and the one to be pushed, have places of their
\* own in the vector.
LEMMA DistinctPlaces ==
  ASSUME TypeOK, NEW n \in Nat, NEW m \in Nat, n < m, m < indices.capacity
  PROVE  OffsetToIndex(indices, n) # OffsetToIndex(indices, m)
  <1> DEFINE s == indices.start
             c == indices.capacity
             i == OffsetToIndex(indices, n)
             j == OffsetToIndex(indices, m)
  <1>1. s \in Nat /\ c \in Nat /\ s < c /\ indices \in Indices
    BY DEF TypeOK, Indices
  <1>2. n <= c /\ m <= c
    BY <1>1
  <1>3. /\ i = IF s + n < c THEN s + n ELSE s + n - c
        /\ j = IF s + m < c THEN s + m ELSE s + m - c
    BY <1>1, <1>2, OffsetToIndexValue
  <1>4. m < c
    OBVIOUS
  <1> HIDE DEF s, c, i, j
  <1>5. i # j
    BY <1>1, <1>3, <1>4
  <1> QED
    BY <1>5 DEF i, j

\* push adds to the history, and drops its oldest value when it is full.
LEMMA PushRefines ==
  ASSUME TypeOK, TypeOK', NEW v \in Value, Push(v)
  PROVE  History!Push(v)
  <1> DEFINE new_index == OffsetToIndex(indices, indices.len)
             c == indices.capacity
             l == indices.len
             a == Append(Items, v)
  <1>1. /\ indices \in Indices /\ l \in Nat /\ c \in Nat \ {0} /\ l <= c
        /\ indices.start \in Nat /\ indices.start < c /\ data \in Seq(Value) /\ Len(data) \in Nat
    BY DEF TypeOK, Indices
  <1>2. /\ new_index \in Nat /\ new_index <= Len(data)
        /\ l = c => new_index = indices.start /\ Len(data) = c
    BY NewIndexFacts
  <1>3. /\ indices' = PushIndices(indices)
        /\ data' = IF new_index = Len(data) THEN Append(data, v)
                   ELSE [data EXCEPT ![new_index + 1] = v]
        /\ returned' = IF l = c THEN Get(new_index) ELSE None
    BY DEF Push
  <1>4. /\ Items \in Seq(Value) /\ Len(Items) = l
        /\ \A n \in 1 .. l : Items[n] = data[OffsetToIndex(indices, n - 1) + 1]
    BY ItemsFacts DEF ItemsInPlace
  <1>5. /\ Items' \in Seq(Value) /\ Len(Items') = indices'.len
        /\ \A n \in 1 .. indices'.len : Items'[n] = data'[OffsetToIndex(indices', n - 1) + 1]
    <2>1. ItemsInPlace'
      BY ItemsFacts, PTL
    <2> QED
      BY <2>1 DEF ItemsInPlace
  <1>6. /\ indices'.capacity = c
        /\ l = c => /\ indices'.len = l
                    /\ indices'.start = IF indices.start + 1 < c THEN indices.start + 1 ELSE 0
        /\ l # c => indices'.len = l + 1 /\ indices'.start = indices.start
        /\ indices' \in Indices
    BY <1>3, PushIndicesFacts
  <1>7. /\ a \in Seq(Value) /\ Len(a) = l + 1 /\ a[l + 1] = v
        /\ \A n \in 1 .. l : a[n] = Items[n]
    BY <1>4, AppendProperties
  <1>8. /\ data'[new_index + 1] = v
        /\ \A j \in 1 .. Len(data) : j # new_index + 1 => data'[j] = data[j]
    <2>1. CASE new_index = Len(data)
      BY <1>1, <1>3, <2>1, AppendProperties
    <2>2. CASE new_index # Len(data)
      <3>1. new_index + 1 \in DOMAIN data
        BY <1>1, <1>2, <2>2
      <3> QED
        BY <1>1, <1>3, <2>2, <3>1
    <2> QED
      BY <2>1, <2>2
  \* an element that stays is where it was
  <1>9. ASSUME NEW n \in 1 .. l, l = c => n # 1
        PROVE  data'[OffsetToIndex(indices, n - 1) + 1] = Items[n]
    <2>1. n - 1 \in Nat /\ n - 1 < l
      BY <1>1
    <2>2. OffsetToIndex(indices, n - 1) \in Nat /\ OffsetToIndex(indices, n - 1) < Len(data)
      BY <2>1, IndexInData
    <2>3. OffsetToIndex(indices, n - 1) # new_index
      <3>1. CASE l = c
        <4>1. 0 < n - 1 /\ n - 1 < c /\ 0 \in Nat
          BY <1>1, <1>9, <3>1, <2>1
        <4>2. OffsetToIndex(indices, 0) = indices.start
          BY <1>1, OffsetToIndexValue
        <4> QED
          BY <1>2, <2>1, <3>1, <4>1, <4>2, DistinctPlaces
      <3>2. CASE l # c
        <4>1. l < c
          BY <1>1, <3>2
        <4> QED
          BY <1>1, <2>1, <4>1, DistinctPlaces
      <3> QED
        BY <3>1, <3>2
    <2>4. OffsetToIndex(indices, n - 1) + 1 \in 1 .. Len(data)
      BY <1>1, <2>2
    <2> QED
      BY <1>2, <1>4, <1>8, <2>2, <2>3, <2>4
  <1> HIDE DEF new_index, a
  <1>10. CASE l # c
    <2>1. /\ Len(Items') = l + 1
          /\ \A n \in 1 .. l + 1 : OffsetToIndex(indices', n - 1) = OffsetToIndex(indices, n - 1)
      BY <1>5, <1>6, <1>10 DEF OffsetToIndex
    <2>2. ASSUME NEW n \in 1 .. l + 1 PROVE Items'[n] = a[n]
      <3>1. CASE n = l + 1
        <4>1. n - 1 = l /\ OffsetToIndex(indices, n - 1) = new_index
          BY <1>1, <3>1 DEF new_index
        <4> QED
          BY <1>5, <1>6, <1>7, <1>8, <1>10, <2>1, <3>1, <4>1
      <3>2. CASE n # l + 1
        <4>1. n \in 1 .. l
          BY <1>1, <3>2
        <4>2. Items'[n] = data'[OffsetToIndex(indices, n - 1) + 1]
          BY <1>5, <1>6, <1>10, <2>1
        <4> QED
          BY <1>7, <1>9, <1>10, <4>1, <4>2
      <3> QED
        BY <3>1, <3>2
    <2>3. Items' = a
      BY <1>5, <1>7, <2>1, <2>2, SeqEqual
    <2>4. c >= Len(a)
      BY <1>1, <1>7, <1>10
    <2> QED
      BY <1>3, <1>4, <1>6, <1>10, <2>3, <2>4 DEF History!Push, History!Latest, a
  <1>11. CASE l = c
    <2> DEFINE t == SubSeq(a, 2, c + 1)
    <2>1. t \in Seq(Value) /\ Len(t) = c /\ \A n \in 1 .. c : t[n] = a[n + 1]
      <3>1. \A n \in 2 .. c + 1 : a[n] \in Value
        BY <1>1, <1>7, <1>11
      <3>2. /\ t \in Seq(Value) /\ Len(t) = c + 1 - 2 + 1
            /\ \A n \in 1 .. c + 1 - 2 + 1 : t[n] = a[2 + n - 1]
        BY <1>1, <3>1, SubSeqProperties
      <3> QED
        BY <1>1, <3>2
    <2>2. ASSUME NEW n \in 1 .. c
          PROVE  OffsetToIndex(indices', n - 1) = OffsetToIndex(indices, n)
      <3>1. n \in Nat /\ n <= c /\ n - 1 \in Nat /\ n - 1 <= c
        BY <1>1
      <3>2. indices'.start \in Nat /\ indices'.start < c
        BY <1>1, <1>6, <1>11
      <3>3. OffsetToIndex(indices, n) = IF indices.start + n < c THEN indices.start + n
                                        ELSE indices.start + n - c
        BY <1>1, <3>1, OffsetToIndexValue
      <3>4. OffsetToIndex(indices', n - 1) = IF indices'.start + (n - 1) < c THEN indices'.start + (n - 1)
                                             ELSE indices'.start + (n - 1) - c
        BY <1>6, <3>1, <3>2, OffsetToIndexValue
      <3> DEFINE x == indices.start
                 y == indices'.start
      <3>5. /\ x \in Nat /\ c \in Nat /\ x < c
            /\ y = IF x + 1 < c THEN x + 1 ELSE 0
        BY <1>1, <1>6, <1>11
      <3> HIDE DEF x, y, c
      <3>6. (IF y + (n - 1) < c THEN y + (n - 1) ELSE y + (n - 1) - c)
              = (IF x + n < c THEN x + n ELSE x + n - c)
        BY <3>1, <3>5
      <3> QED
        BY <3>3, <3>4, <3>6 DEF x, y, c
    <2>3. ASSUME NEW n \in 1 .. c PROVE Items'[n] = t[n]
      <3>1. Items'[n] = data'[OffsetToIndex(indices, n) + 1] /\ t[n] = a[n + 1]
        BY <1>5, <1>6, <1>11, <2>1, <2>2
      <3>2. CASE n = c
        <4>1. OffsetToIndex(indices, n) = new_index
          BY <1>11, <3>2 DEF new_index
        <4> QED
          BY <1>7, <1>8, <1>11, <3>1, <3>2, <4>1
      <3>3. CASE n # c
        <4>1. n + 1 \in 1 .. l /\ n + 1 # 1 /\ (n + 1) - 1 = n
          BY <1>1, <1>11, <3>3
        <4>2. data'[OffsetToIndex(indices, (n + 1) - 1) + 1] = Items[n + 1]
          BY <1>9, <4>1
        <4> QED
          BY <1>7, <3>1, <4>1, <4>2
      <3> QED
        BY <3>2, <3>3
    <2>4. Items' = t
      BY <1>5, <1>6, <1>11, <2>1, <2>3, SeqEqual
    <2>5. ~ c >= Len(a) /\ Len(a) - c + 1 = 2 /\ Len(a) = c + 1
      BY <1>1, <1>7, <1>11
    <2>6. returned' = Items[1]
      <3>1. 1 \in 1 .. l /\ OffsetToIndex(indices, 0) = indices.start
        BY <1>1, <1>11, OffsetToIndexValue
      <3>2. Items[1] = data[indices.start + 1]
        BY <1>4, <3>1
      <3>3. Get(new_index) = data[new_index + 1]
        BY <1>1, <1>2, <1>11 DEF Get
      <3> QED
        BY <1>2, <1>3, <1>11, <3>2, <3>3
    <2> QED
      BY <1>4, <1>6, <1>11, <2>4, <2>5, <2>6 DEF History!Push, History!Latest, a
  <1> QED
    BY <1>10, <1>11

\* The history after pop or truncate: a prefix of the one before.
LEMMA PrefixRefines ==
  ASSUME TypeOK, TypeOK', NEW n \in Nat, n <= indices.len,
         indices'.len = n, indices'.start = indices.start, indices'.capacity = indices.capacity,
         data' = data
  PROVE  Items' = SubSeq(Items, 1, n)
  <1>1. ItemsInPlace /\ ItemsInPlace'
    BY ItemsFacts, PTL
  <1>2. indices.len \in Nat
    BY DEF TypeOK, Indices
  <1>3. \A i \in 1 .. n : Items[i] \in Value
    BY <1>1, <1>2 DEF ItemsInPlace
  <1>4. /\ SubSeq(Items, 1, n) \in Seq(Value)
        /\ Len(SubSeq(Items, 1, n)) = n
        /\ \A i \in 1 .. n : SubSeq(Items, 1, n)[i] = Items[i]
    BY <1>3, SubSeqProperties
  <1>5. /\ Items' \in Seq(Value) /\ Len(Items') = n
        /\ \A i \in 1 .. n : Items'[i] = data[OffsetToIndex(indices, i - 1) + 1]
    BY <1>1 DEF ItemsInPlace, OffsetToIndex
  <1>6. \A i \in 1 .. n : Items'[i] = Items[i]
    <2> TAKE i \in 1 .. n
    <2>1. i \in 1 .. indices.len
      BY <1>2
    <2>2. Items[i] = data[OffsetToIndex(indices, i - 1) + 1]
      BY <1>1, <2>1 DEF ItemsInPlace
    <2> QED
      BY <1>5, <2>2
  <1>7. \A i \in 1 .. n : Items'[i] = SubSeq(Items, 1, n)[i]
    BY <1>4, <1>6
  <1> QED
    BY <1>4, <1>5, <1>7, SeqEqual

\* pop takes the latest value off the history.
LEMMA PopRefines ==
  ASSUME TypeOK, TypeOK', Pop
  PROVE  History!Pop
  <1>1. ItemsInPlace /\ ItemsInPlace'
    BY ItemsFacts, PTL
  <1>2. /\ indices \in Indices /\ indices.len \in Nat /\ data \in Seq(Value)
        /\ Items \in Seq(Value) /\ Len(Items) = indices.len
    BY <1>1 DEF TypeOK, Indices, ItemsInPlace
  <1>3. CASE indices.len = 0
    <2>1. returned' = None /\ indices' = indices /\ data' = data
      BY <1>3 DEF Pop
    <2>2. Items' = Items
      BY <2>1 DEF Items
    <2>3. Items = << >>
      BY <1>2, <1>3
    <2>4. SubSeq(Items, 1, Len(Items) - 1) = << >>
      BY <1>2, <1>3, SubSeqEmpty
    <2> QED
      BY <2>1, <2>2, <2>3, <2>4 DEF History!Pop
  <1>4. CASE indices.len # 0
    <2> DEFINE n == indices.len - 1
    <2>1. n \in Nat /\ n < indices.len /\ n <= indices.len /\ 1 <= indices.len
      BY <1>2, <1>4
    <2>2. indices' = DecreaseLen(indices, 1) /\ data' = data
          /\ returned' = Get(OffsetToIndex(indices, n))
      BY <1>4 DEF Pop
    <2>3. indices'.len = n /\ indices'.start = indices.start /\ indices'.capacity = indices.capacity
      BY <2>1, <2>2, DecreaseLenFacts
    <2>4. Items' = SubSeq(Items, 1, n)
      BY <2>1, <2>2, <2>3, PrefixRefines
    <2>5. returned' = Items[indices.len]
      <3>1. OffsetToIndex(indices, n) \in Nat /\ OffsetToIndex(indices, n) < Len(data)
        BY <2>1, IndexInData
      <3>2. Items[indices.len] = data[OffsetToIndex(indices, n) + 1]
        BY <1>1, <1>2, <2>1 DEF ItemsInPlace
      <3> QED
        BY <2>2, <3>1, <3>2 DEF Get
    <2>6. Items # << >> /\ Len(Items) - 1 = n
      BY <1>2, <1>4
    <2> QED
      BY <1>2, <2>3, <2>4, <2>5, <2>6 DEF History!Pop
  <1> QED
    BY <1>3, <1>4

\* truncate forgets the latest values.
LEMMA TruncateRefines ==
  ASSUME TypeOK, TypeOK', NEW n \in Counts, Truncate(n)
  PROVE  History!Truncate(n)
  <1>1. ItemsInPlace /\ ItemsInPlace'
    BY ItemsFacts, PTL
  <1>2. /\ n \in Nat /\ indices.len \in Nat /\ Items \in Seq(Value) /\ Len(Items) = indices.len
        /\ Items' \in Seq(Value) /\ Len(Items') = indices'.len
    BY <1>1, CountsAssumption DEF TypeOK, Indices, ItemsInPlace
  <1>3. indices' = DecreaseLen(indices, n) /\ data' = data /\ returned' = None
    BY DEF Truncate
  <1>4. /\ indices'.start = indices.start /\ indices'.capacity = indices.capacity
        /\ indices'.len = IF n <= indices.len THEN indices.len - n ELSE 0
    BY <1>2, <1>3, DecreaseLenFacts
  <1>5. CASE n <= indices.len
    <2>1. indices.len - n \in Nat /\ indices.len - n <= indices.len /\ indices'.len = indices.len - n
      BY <1>2, <1>4, <1>5
    <2>2. Items' = SubSeq(Items, 1, indices.len - n)
      BY <1>3, <1>4, <2>1, PrefixRefines
    <2> QED
      BY <1>2, <1>3, <1>4, <1>5, <2>2 DEF History!Truncate
  <1>6. CASE ~ n <= indices.len
    <2>1. Items' = << >>
      BY <1>2, <1>4, <1>6
    <2> QED
      BY <1>2, <1>3, <1>4, <1>6, <2>1 DEF History!Truncate
  <1> QED
    BY <1>5, <1>6

\* clear empties the history.
LEMMA ClearRefines ==
  ASSUME TypeOK, TypeOK', Clear
  PROVE  History!Clear
  <1>1. ItemsInPlace'
    BY ItemsFacts, PTL
  <1>2. indices'.len = 0 /\ indices'.capacity = indices.capacity /\ returned' = None
    BY DEF Clear, NewIndices
  <1>3. Items' = << >>
    BY <1>1, <1>2 DEF ItemsInPlace
  <1> QED
    BY <1>2, <1>3 DEF History!Clear

\* resize keeps the latest values that fit.
LEMMA ResizeRefines ==
  ASSUME TypeOK, TypeOK', NEW c \in Capacities, Resize(c)
  PROVE  History!Resize(c)
  <1>1. ItemsInPlace /\ ItemsInPlace'
    BY ItemsFacts, PTL
  <1>2. /\ indices \in Indices /\ indices.len \in Nat /\ c \in Nat \ {0} /\ indices.len <= indices.capacity
        /\ Items \in Seq(Value) /\ Len(Items) = indices.len /\ returned' = None
    BY <1>1, CapacitiesAssumption DEF TypeOK, Indices, ItemsInPlace, Resize
  <1>3. CASE c = indices.capacity
    <2>1. indices' = indices /\ data' = data
      BY <1>3 DEF Resize
    <2>2. Items' = Items
      BY <2>1 DEF Items
    <2>3. c >= Len(Items)
      BY <1>2, <1>3 DEF Indices
    <2> QED
      BY <1>2, <1>3, <2>1, <2>2, <2>3 DEF History!Resize, History!Latest
  <1>4. CASE c # indices.capacity
    <2> DEFINE n == Least(indices.len, c)
               t == History!Latest(Items, c)
    <2>1. n \in Nat /\ n <= indices.len /\ n <= c
          /\ (c >= indices.len => n = indices.len) /\ (~ c >= indices.len => n = c)
      BY <1>2 DEF Least
    <2>2. /\ data' = Preserved(n)
          /\ indices' = IncreaseLen(NewIndices(c), n)
      BY <1>4 DEF Resize
    <2> HIDE DEF n
    <2>3. indices' = [start |-> 0, len |-> n, capacity |-> c]
      BY <2>1, <2>2 DEF IncreaseLen, NewIndices, Least
    <2>4. /\ Len(data') = n
          /\ \A i \in 1 .. n : data'[i] = Items[indices.len - n + i]
      BY <2>1, <2>2, PreservedFacts
    <2>5. ASSUME NEW i \in 1 .. n PROVE Items'[i] = Items[indices.len - n + i]
      <3>1. indices'.start = 0 /\ indices'.len = n /\ indices'.capacity = c /\ indices' \in Indices
        BY <1>2, <2>1, <2>3 DEF Indices
      <3>2. i - 1 \in Nat /\ i - 1 < c /\ i - 1 <= c
        BY <1>2, <2>1
      <3>3. OffsetToIndex(indices', i - 1) = i - 1
        BY <1>2, <3>1, <3>2, OffsetToIndexValue
      <3>4. Items'[i] = data'[(i - 1) + 1]
        BY <1>1, <3>1, <3>3 DEF ItemsInPlace
      <3> QED
        BY <2>1, <2>4, <3>4
    <2>6. /\ t \in Seq(Value) /\ Len(t) = n
          /\ \A i \in 1 .. n : t[i] = Items[indices.len - n + i]
      <3>1. CASE c >= indices.len
        BY <1>2, <2>1, <3>1 DEF History!Latest
      <3>2. CASE ~ c >= indices.len
        <4> DEFINE m == indices.len - c + 1
        <4>1. t = SubSeq(Items, m, indices.len) /\ n = c /\ m \in Int /\ m >= 1 /\ m <= indices.len
          <5>1. n = c /\ m \in Int /\ m >= 1 /\ m <= indices.len
            BY <1>2, <2>1, <3>2
          <5>2. ~ c >= Len(Items) /\ Len(Items) - c + 1 = m
            BY <1>2, <3>2
          <5>3. t = SubSeq(Items, Len(Items) - c + 1, Len(Items))
            BY <5>2 DEF History!Latest
          <5> QED
            BY <1>2, <5>1, <5>2, <5>3
        <4>2. \A i \in m .. indices.len : Items[i] \in Value
          BY <1>2, <4>1
        <4>3. /\ SubSeq(Items, m, indices.len) \in Seq(Value)
              /\ Len(SubSeq(Items, m, indices.len)) = indices.len - m + 1
              /\ \A i \in 1 .. indices.len - m + 1 : SubSeq(Items, m, indices.len)[i] = Items[m + i - 1]
          BY <1>2, <4>1, <4>2, SubSeqProperties
        <4>4. indices.len - m + 1 = n /\ \A i \in 1 .. n : m + i - 1 = indices.len - n + i
          BY <1>2, <4>1
        <4> QED
          BY <4>1, <4>3, <4>4
      <3> QED
        BY <3>1, <3>2
    <2> HIDE DEF t
    <2>7. Items' \in Seq(Value) /\ Len(Items') = n
      BY <1>1, <2>3 DEF ItemsInPlace
    <2>8. \A i \in 1 .. n : Items'[i] = t[i]
      BY <2>5, <2>6
    <2>9. Items' = t
      BY <2>6, <2>7, <2>8, SeqEqual
    <2> QED
      BY <1>2, <2>3, <2>9 DEF History!Resize, t
  <1> QED
    BY <1>3, <1>4

\* The ring buffer is a bounded history, for every capacity and every sequence
\* of push, pop, truncate, clear and resize: start, len and the circular
\* vector are invisible to its user.
THEOREM Refinement == Spec => IsBoundedHistory
  <1>1. Init => History!Init
    <2> SUFFICES ASSUME Init PROVE History!Init
      OBVIOUS
    <2>1. TypeOK
      BY InitType
    <2>2. Items \in Seq(Value) /\ Len(Items) = indices.len
      BY <2>1, ItemsFacts DEF ItemsInPlace
    <2>3. indices.len = 0 /\ indices.capacity \in Capacities /\ returned = None
      BY DEF Init, NewIndices
    <2>4. Items = << >>
      BY <2>2, <2>3
    <2> QED
      BY <2>3, <2>4 DEF History!Init
  <1>2. TypeOK /\ TypeOK' /\ [Next]_vars => [History!Next]_History!vars
    <2> SUFFICES ASSUME TypeOK, TypeOK', [Next]_vars PROVE [History!Next]_History!vars
      OBVIOUS
    <2>1. ASSUME NEW v \in Value, Push(v) PROVE History!Next
      BY <2>1, PushRefines DEF History!Next
    <2>2. CASE Pop
      BY <2>2, PopRefines DEF History!Next
    <2>3. ASSUME NEW n \in Counts, Truncate(n) PROVE History!Next
      BY <2>3, TruncateRefines DEF History!Next
    <2>4. CASE Clear
      BY <2>4, ClearRefines DEF History!Next
    <2>5. ASSUME NEW c \in Capacities, Resize(c) PROVE History!Next
      BY <2>5, ResizeRefines DEF History!Next
    <2>6. CASE UNCHANGED vars
      BY <2>6 DEF vars, History!vars, Items
    <2> QED
      BY <2>1, <2>2, <2>3, <2>4, <2>5, <2>6 DEF Next
  <1> QED
    BY <1>1, <1>2, TypeCorrect, PTL DEF Spec, IsBoundedHistory, History!Spec

\* first, last, nth_element and nth_element_from_end read the history and
\* nothing else, whatever u64 they are given.
THEOREM Reads == Spec => []ReadsTheHistory
  <1>1. TypeOK => ReadsTheHistory
    <2> SUFFICES ASSUME TypeOK, NEW n \in 0 .. U64 - 1
                 PROVE  /\ NthElement(n) = IF n < Len(Items) THEN Items[n + 1] ELSE None
                        /\ NthElementFromEnd(n) = IF n < Len(Items) THEN Items[Len(Items) - n] ELSE None
      BY DEF ReadsTheHistory
    <2> DEFINE l == indices.len
    <2>1. ItemsInPlace
      BY ItemsFacts
    <2>2. /\ indices \in Indices /\ l \in Nat /\ U64 \in Nat \ {0} /\ n \in Nat /\ Len(Items) = l
          /\ indices.capacity \in Capacities /\ l <= indices.capacity /\ indices.capacity \in Nat
          /\ indices.capacity < U64
      BY <2>1, U64Assumption DEF TypeOK, Indices, ItemsInPlace
    <2>3. ASSUME NEW k \in Nat, k < l
          PROVE  Get(OffsetToIndex(indices, k)) = Items[k + 1] /\ OffsetToIndex(indices, k) \in Nat
      <3>1. OffsetToIndex(indices, k) \in Nat /\ OffsetToIndex(indices, k) < Len(data)
        BY <2>3, IndexInData
      <3>2. k + 1 \in 1 .. l /\ (k + 1) - 1 = k
        BY <2>2, <2>3
      <3>3. Items[k + 1] = data[OffsetToIndex(indices, k) + 1]
        BY <2>1, <3>2 DEF ItemsInPlace
      <3> QED
        BY <3>1, <3>3 DEF Get
    <2>4. NthElement(n) = IF n < l THEN Items[n + 1] ELSE None
      BY <2>2, <2>3 DEF NthElement, IndexOfNth
    <2>5. CASE n < l
      <3>1. l - n - 1 \in Nat /\ l - n - 1 < l /\ (l - n - 1) + 1 = l - n
        BY <2>2, <2>5
      <3>2. IndexOfNthFromEnd(indices, n) = OffsetToIndex(indices, l - n - 1)
        BY <2>2, <2>5, IndexOfNthFromEndValue
      <3>3. OffsetToIndex(indices, l - n - 1) # None
        BY <2>3, <3>1, NoneAssumption
      <3>4. NthElementFromEnd(n) = Items[l - n]
        BY <2>3, <3>1, <3>2, <3>3 DEF NthElementFromEnd
      <3> QED
        BY <2>2, <2>4, <2>5, <3>4
    <2>6. CASE ~ n < l
      <3>1. IndexOfNthFromEnd(indices, n) = None
        <4>1. CASE n + 1 < U64
          <5>1. (n + 1) % U64 = n + 1
            BY <2>2, <4>1, ModOnce
          <5>2. ~ n + 1 <= l
            BY <2>2, <2>6
          <5> QED
            BY <5>1, <5>2 DEF IndexOfNthFromEnd
        <4>2. CASE ~ n + 1 < U64
          <5>1. n + 1 = U64
            BY <2>2, <4>2
          <5>2. (n + 1) % U64 = 0
            <6>1. U64 \in Nat /\ U64 < U64 + U64 /\ ~ U64 < U64 /\ U64 - U64 = 0
              BY <2>2
            <6>2. U64 % U64 = 0
              BY <2>2, <6>1, ModOnce
            <6> QED
              BY <5>1, <6>2
          <5>3. 0 <= l /\ l - 0 = l /\ ~ l < l
            BY <2>2
          <5> QED
            BY <5>2, <5>3 DEF IndexOfNthFromEnd, IndexOfNth
        <4> QED
          BY <4>1, <4>2
      <3> QED
        BY <2>2, <2>4, <2>6, <3>1 DEF NthElementFromEnd
    <2> QED
      BY <2>5, <2>6
  <1> QED
    BY <1>1, TypeCorrect, PTL
=============================================================================
