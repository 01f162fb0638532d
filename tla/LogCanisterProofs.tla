-------------------------- MODULE LogCanisterProofs --------------------------
(***************************************************************************)
(* Proofs about the log of a canister, for every set of principals and     *)
(* every set of capacities.                                                *)
(***************************************************************************)
EXTENDS LogCanister, SequenceTheorems, TLAPS

-----------------------------------------------------------------------------
(* Arithmetic *)

\* Division with a remainder.
LEMMA Division ==
  ASSUME NEW a \in Nat, NEW n \in Nat \ {0}
  PROVE  \E q \in Nat, r \in 0 .. n - 1 : r = a % n /\ a = q * n + r /\ r <= a
  <1> DEFINE q == a \div n
             r == a % n
  <1>1. q \in Int /\ r \in 0 .. n - 1 /\ a = n * q + r
    BY Z3
  <1> HIDE DEF q, r
  <1>2. ASSUME q <= -1 PROVE FALSE
    <2>1. n * q <= -n
      BY <1>1, <1>2, Z3
    <2> QED
      BY <1>1, <2>1
  <1>3. q \in Nat /\ a = q * n + r
    BY <1>1, <1>2
  <1>4. q * n >= 0
    BY <1>3, Z3
  <1>5. r <= a
    BY <1>1, <1>3, <1>4
  <1>6. r = a % n
    BY DEF r
  <1> QED
    BY <1>1, <1>3, <1>5, <1>6

\* The remainder is the only one of its size.
LEMMA RemainderIs ==
  ASSUME NEW a \in Nat, NEW n \in Nat \ {0}, NEW q \in Int, NEW r \in 0 .. n - 1, a = q * n + r
  PROVE  a % n = r
  <1>2. PICK p \in Nat, s \in 0 .. n - 1 : s = a % n /\ a = p * n + s
    BY Division
  <1>3. a = p * n + s
    BY <1>2
  <1>4. ASSUME q - p >= 1 PROVE FALSE
    <2>1. (q - p) * n >= n
      BY <1>4, Z3
    <2>2. q * n - p * n = (q - p) * n /\ q * n \in Int /\ p * n \in Int
      BY Z3
    <2> QED
      BY <1>3, <2>1, <2>2
  <1>5. ASSUME p - q >= 1 PROVE FALSE
    <2>1. (p - q) * n >= n
      BY <1>5, Z3
    <2>2. p * n - q * n = (p - q) * n /\ q * n \in Int /\ p * n \in Int
      BY Z3
    <2> QED
      BY <1>3, <2>1, <2>2
  <1>6. p = q
    BY <1>4, <1>5
  <1>7. q * n \in Int
    OBVIOUS
  <1> QED
    BY <1>2, <1>3, <1>6, <1>7

-----------------------------------------------------------------------------
(* The start of a page *)

RecordsType == [count : 0 .. MaxRecords, ring : Seq(0 .. MaxRecords), capacity : Nat \ {0}]

\* A page starts at some place of the ring, or behind its end.
LEMMA StartTyped ==
  ASSUME NEW r \in RecordsType, NEW from \in Nat
  PROVE  FirstIndex(r, from) \in Nat
  <1>1. PICK count \in Nat, capacity \in Nat \ {0}, len \in Nat :
          count = r.count /\ capacity = r.capacity /\ len = Len(r.ring) /\ count < Usize
    BY UsizeAssumption DEF RecordsType
  <1>2. PICK m \in Nat : m = count % capacity /\ m <= count
    BY Division
  <1>3. PICK x \in Nat : x = Usize + from - m
    <2>1. Usize + from - m \in Nat
      BY <1>1, <1>2, UsizeAssumption
    <2> QED
      BY <2>1, Zenon
  <1>4. Usize \in Nat \ {0}
    BY <1>1, UsizeAssumption
  <1>5. PICK y \in Nat : y = x % Usize
    BY <1>3, <1>4, Division
  <1>6. y % capacity \in Nat /\ from % capacity \in Nat /\ 0 % capacity \in Nat
    BY Division
  <1>7. ((Usize + from - (count % capacity)) % Usize) % capacity \in Nat
    BY <1>2, <1>3, <1>5, <1>6, Zenon
  <1> QED
    BY <1>1, <1>6, <1>7 DEF FirstIndex

\* The wrapping subtraction of take_records does not wrap around when the ring
\* is full: what is d records before the end is d places before its capacity.
LEMMA FullStart ==
  ASSUME NEW count \in Nat, NEW capacity \in Nat \ {0}, NEW from \in Nat,
         from < count, count - from <= capacity, capacity <= count, count < Usize
  PROVE  ((Usize + from - (count % capacity)) % Usize) % capacity = capacity - (count - from)
  <1> PICK d \in 1 .. capacity : d = count - from /\ from = count - d
    OBVIOUS
  <1>0. PICK k \in Nat, m \in 0 .. capacity - 1 :
          m = count % capacity /\ count = k * capacity + m /\ m <= count
    BY Division
  <1>1. m = count % capacity /\ m \in Nat
    BY <1>0
  <1>2. PICK kc \in Int : kc = k * capacity /\ count = kc + m
    BY <1>0
  <1>3. Usize \in Nat \ {0}
    BY UsizeAssumption
  <1>4. kc >= capacity
    <2>1. CASE k = 0
      BY <1>0, <1>2, <2>1
    <2>2. CASE k >= 1
      <3>1. k * capacity >= capacity
        BY <2>2, Z3
      <3> QED
        BY <1>2, <3>1
    <2> QED
      BY <2>1, <2>2
  <1>5. from - m = kc - d /\ from - m \in Nat
    BY <1>1, <1>2, <1>4
  <1>6. PICK x \in Nat : x = Usize + from - m
    <2>1. Usize + from - m \in Nat
      BY <1>1, <1>3, <1>5
    <2> QED
      BY <2>1, Zenon
  <1>7. PICK y \in Nat : y = from - m /\ y = kc - d
    BY <1>5
  <1>8. x = 1 * Usize + y /\ y \in 0 .. Usize - 1
    BY <1>1, <1>3, <1>6, <1>7
  <1>9. x % Usize = y
    BY <1>3, <1>8, RemainderIs
  <1>10. (k - 1) * capacity = kc - capacity
    BY <1>2, Z3
  <1>11. y = (k - 1) * capacity + (capacity - d) /\ capacity - d \in 0 .. capacity - 1 /\ k - 1 \in Int
    BY <1>7, <1>10
  <1>12. y % capacity = capacity - d
    BY <1>11, RemainderIs
  <1>13. ((Usize + from - (count % capacity)) % Usize) % capacity = capacity - d
    BY <1>1, <1>6, <1>9, <1>12, Zenon
  <1> QED
    BY <1>13

\* Where a page starts in a ring that is full or has all records.
FullOrAll(count, len, capacity) == len = IF count <= capacity THEN count ELSE capacity

StartsAt(first, from, count, len) == first = IF from + len < count THEN 0 ELSE len - (count - from)

LEMMA StartOfPage ==
  ASSUME NEW r \in RecordsType, NEW from \in Nat, NEW count \in Nat, NEW len \in Nat,
         NEW capacity \in Nat \ {0}, count = r.count, len = Len(r.ring), capacity = r.capacity,
         from < count, FullOrAll(count, len, capacity)
  PROVE  StartsAt(FirstIndex(r, from), from, count, len)
  <1> USE DEF FullOrAll, StartsAt
  <1>1. count < Usize
    BY UsizeAssumption DEF RecordsType
  <1>2. CASE from + len < count
    <2>1. 0 % capacity = 0
      BY RemainderIs
    <2> QED
      BY <1>2, <2>1 DEF FirstIndex
  <1>3. CASE from + len >= count /\ len = count
    <2>1. from = 0 * capacity + from /\ from \in 0 .. capacity - 1
      BY <1>3
    <2>2. from % capacity = from
      BY <2>1, RemainderIs
    <2>3. len - (count - from) = from
      BY <1>3
    <2> QED
      BY <1>3, <2>2, <2>3 DEF FirstIndex
  <1>4. CASE from + len >= count /\ len # count
    <2>1. len = capacity /\ count > len /\ capacity <= count /\ count - from <= capacity
      BY <1>4
    <2>2. ((Usize + from - (count % capacity)) % Usize) % capacity = capacity - (count - from)
      BY <1>1, <2>1, FullStart
    <2> QED
      BY <1>4, <2>1, <2>2 DEF FirstIndex
  <1> QED
    BY <1>2, <1>3, <1>4

\* The length of a page fits what is left of the ring.
LEMMA PageFits ==
  ASSUME NEW r \in RecordsType, NEW n \in Nat, NEW first \in Nat
  PROVE  /\ PageLength(r, n, first) \in Nat
         /\ \A i \in 1 .. PageLength(r, n, first) : first + i \in 1 .. Len(r.ring)
         /\ PageLength(r, n, first) = IF Len(r.ring) < first THEN 0
                                      ELSE IF n <= Len(r.ring) - first THEN n ELSE Len(r.ring) - first
  <1>1. PICK len \in Nat : len = Len(r.ring)
    BY DEF RecordsType
  <1> QED
    BY <1>1 DEF PageLength, SaturatingSub

-----------------------------------------------------------------------------
(* The ring *)

\* RingInv, for a buffer, the flag and the history that go with it.
Placed(r, s) ==
  \A i \in 1 .. Len(r.ring) :
    LET number == r.count - Len(r.ring) + i - 1
    IN /\ r.ring[i] < r.count
       /\ number >= s \/ r.ring[i] >= s => r.ring[i] = number

Sound(r, on, s) ==
  /\ r \in RecordsType
  /\ s \in 0 .. MaxRecords /\ s <= r.count
  /\ Len(r.ring) <= r.capacity /\ Len(r.ring) <= r.count
  /\ on => Len(r.ring) >= r.capacity \/ Len(r.ring) >= r.count - s
  /\ Placed(r, s)

LEMMA RingInvIsSound == RingInv <=> Sound(records, enabled, since)
  BY DEF RingInv, Sound, Placed, RecordsType

\* A new buffer is empty.
LEMMA NewBufferSound ==
  ASSUME NEW count \in 0 .. MaxRecords, NEW capacity \in Capacities
  PROVE  Sound(NewBuffer(count, capacity), capacity > 0, count)
         /\ (capacity > 0 => NewBuffer(count, capacity).capacity = capacity)
  <1>1. capacity \in Nat /\ count \in Nat
    BY CapacitiesAssumption, UsizeAssumption
  <1>2. << >> \in Seq(0 .. MaxRecords) /\ Len(<< >>) = 0
    OBVIOUS
  <1>3. PICK c \in Nat \ {0} : c = (IF capacity > 0 THEN capacity ELSE 1)
    BY <1>1
  <1>4. NewBuffer(count, capacity) = [count |-> count, ring |-> << >>, capacity |-> c]
    BY <1>3 DEF NewBuffer, EmptyBuffer
  <1>5. [count |-> count, ring |-> << >>, capacity |-> c] \in RecordsType
    BY <1>2 DEF RecordsType
  <1> QED
    BY <1>1, <1>2, <1>3, <1>4, <1>5 DEF Sound, Placed

\* A record goes behind the latest one, and the oldest goes if there is no
\* room.
LEMMA PrintedSound ==
  ASSUME RingInv, enabled \in BOOLEAN, records.count < MaxRecords
  PROVE  Sound(Printed, enabled, since) /\ Printed.capacity = records.capacity
  <1>1. CASE ~ enabled
    BY <1>1, RingInvIsSound DEF Printed
  <1>2. CASE enabled
    <2>1. PICK count \in 0 .. MaxRecords, ring \in Seq(0 .. MaxRecords), capacity \in Nat \ {0},
               s \in 0 .. MaxRecords :
            count = records.count /\ ring = records.ring /\ capacity = records.capacity /\ s = since
      BY DEF RingInv
    <2>2. PICK len \in Nat : /\ len = Len(ring) /\ len <= capacity /\ len <= count /\ s <= count
                             /\ len >= capacity \/ len >= count - s
      BY <1>2, <2>1 DEF RingInv
    <2>15. count \in Nat /\ s \in Nat
      BY UsizeAssumption
    <2>3. \A i \in 1 .. len : /\ ring[i] < count /\ ring[i] \in Nat
                              /\ count - len + i - 1 >= s \/ ring[i] >= s => ring[i] = count - len + i - 1
      <3>1. \A i \in 1 .. len : ring[i] \in 0 .. MaxRecords
        BY <2>2, ElementOfSeq
      <3> QED
        BY <2>1, <2>2, <3>1, UsizeAssumption DEF RingInv
    <2>4. PICK kept : kept = IF len = capacity THEN Tail(ring) ELSE ring
      OBVIOUS
    <2>5. PICK l \in Nat : l = IF len = capacity THEN len - 1 ELSE len
      BY <2>2
    <2>6. kept \in Seq(0 .. MaxRecords) /\ Len(kept) = l
          /\ \A i \in 1 .. l : /\ kept[i] < count /\ kept[i] \in Nat
                               /\ count - l + i - 1 >= s \/ kept[i] >= s => kept[i] = count - l + i - 1
      <3>1. CASE len = capacity
        <4>1. ring # << >>
          BY <2>2, <3>1
        <4>2. kept \in Seq(0 .. MaxRecords) /\ Len(kept) = len - 1 /\ \A i \in 1 .. len - 1 : kept[i] = ring[i + 1]
          BY <2>2, <2>4, <3>1, <4>1, HeadTailProperties
        <4>3. ASSUME NEW i \in 1 .. l
              PROVE  /\ kept[i] < count /\ kept[i] \in Nat
                     /\ count - l + i - 1 >= s \/ kept[i] >= s => kept[i] = count - l + i - 1
          <5>1. PICK j \in 1 .. len : j = i + 1 /\ kept[i] = ring[j]
            BY <2>2, <2>5, <3>1, <4>2
          <5>2. count - l + i - 1 = count - len + j - 1
            BY <2>2, <2>5, <2>15, <3>1, <5>1
          <5> QED
            BY <2>3, <5>1, <5>2
        <4> QED
          BY <2>5, <3>1, <4>2, <4>3
      <3>2. CASE len # capacity
        BY <2>2, <2>3, <2>4, <2>5, <3>2
      <3> QED
        BY <3>1, <3>2
    <2>7. PICK ring2 : ring2 = Append(kept, count)
      OBVIOUS
    <2>8. ring2 \in Seq(0 .. MaxRecords) /\ Len(ring2) = l + 1
          /\ ring2[l + 1] = count /\ \A i \in 1 .. l : ring2[i] = kept[i]
      BY <2>6, <2>7, AppendProperties
    <2>9. ASSUME NEW i \in 1 .. l + 1
          PROVE  /\ ring2[i] < count + 1
                 /\ (count + 1) - (l + 1) + i - 1 >= s \/ ring2[i] >= s
                      => ring2[i] = (count + 1) - (l + 1) + i - 1
      <3>1. CASE i \in 1 .. l
        <4>1. PICK x \in Nat : x = kept[i] /\ x = ring2[i] /\ x < count
                               /\ (count - l + i - 1 >= s \/ x >= s => x = count - l + i - 1)
          BY <2>6, <2>8, <3>1
        <4>2. (count + 1) - (l + 1) + i - 1 = count - l + i - 1
          BY <2>15
        <4> QED
          BY <2>15, <4>1, <4>2
      <3>2. CASE i = l + 1
        BY <2>8, <2>15, <3>2
      <3> QED
        BY <3>1, <3>2
    <2>10. Printed = [count |-> count + 1, ring |-> ring2, capacity |-> capacity]
      <3>1. records = [count |-> count, ring |-> ring, capacity |-> capacity]
        BY <2>1 DEF RingInv
      <3> QED
        BY <1>2, <2>2, <2>4, <2>7, <3>1 DEF Printed, Push
    <2>11. /\ count + 1 \in 0 .. MaxRecords /\ l + 1 <= capacity /\ l + 1 <= count + 1 /\ s <= count + 1
           /\ l + 1 >= capacity \/ l + 1 >= (count + 1) - s
      <3>1. count < MaxRecords /\ MaxRecords \in Nat
        BY <2>1, UsizeAssumption
      <3> QED
        BY <2>2, <2>5, <2>15, <3>1
    <2>12. Printed \in RecordsType
      BY <2>8, <2>10, <2>11 DEF RecordsType
    <2>14. /\ Printed.count = count + 1 /\ Printed.ring = ring2 /\ Printed.capacity = capacity
      BY <2>10
    <2> QED
      BY <2>1, <2>8, <2>9, <2>11, <2>12, <2>14 DEF Sound, Placed
  <1> QED
    BY <1>1, <1>2

\* What take_records returns: l records of the ring, numbered by their places.
IsPage(page, n, count, len, first, l) ==
  /\ page = [i \in 1 .. l |-> [log |-> records.ring[first + i], offset |-> count + first - len + i - 1]]
  /\ l = IF len < first THEN 0 ELSE IF n <= len - first THEN n ELSE len - first

LEMMA TakenRecords ==
  ASSUME RingInv, enabled, NEW n \in Nat, NEW from \in Nat, NEW page, page = TakeRecords(n, from),
         NEW count \in Nat, NEW len \in Nat,
         count = records.count, len = Len(records.ring), from < count
  PROVE  \E first \in Nat, l \in Nat :
           first = FirstIndex(records, from) /\ IsPage(page, n, count, len, first, l)
  <1>1. records \in RecordsType
    BY DEF RingInv, RecordsType
  <1>2. PICK first \in Nat : first = FirstIndex(records, from)
    BY <1>1, StartTyped
  <1>3. PICK l : l = PageLength(records, n, first)
    OBVIOUS
  <1>4. l \in Nat /\ l = IF len < first THEN 0 ELSE IF n <= len - first THEN n ELSE len - first
    BY <1>1, <1>3, PageFits
  <1>5. IsPage(page, n, count, len, first, l)
    BY <1>2, <1>3, <1>4 DEF TakeRecords, Page, IsPage
  <1> QED
    BY <1>2, <1>4, <1>5

\* A ring that is whole is full or has all records, each in its place.
AllInPlace(count, len, capacity) ==
  /\ FullOrAll(count, len, capacity)
  /\ \A i \in 1 .. len : records.ring[i] = count - len + i - 1

LEMMA WholeRing ==
  ASSUME RingInv, enabled, Whole, NEW count \in Nat, NEW len \in Nat, NEW capacity \in Nat \ {0},
         count = records.count, len = Len(records.ring), capacity = records.capacity
  PROVE  AllInPlace(count, len, capacity)
  <1>1. PICK s \in Nat : s = since /\ s <= count /\ (s = 0 \/ count >= s + capacity)
    BY UsizeAssumption DEF RingInv, Whole
  <1>2. len <= capacity /\ len <= count /\ (len >= capacity \/ len >= count - s)
    BY <1>1 DEF RingInv
  <1>3. len = IF count <= capacity THEN count ELSE capacity
    BY <1>1, <1>2
  <1>4. ASSUME NEW i \in 1 .. len PROVE records.ring[i] = count - len + i - 1
    <2>1. count - len + i - 1 >= s
      BY <1>1, <1>3
    <2> QED
      BY <1>1, <2>1 DEF RingInv
  <1> QED
    BY <1>3, <1>4 DEF AllInPlace, FullOrAll

\* The page that change_capacity takes from a ring that is whole and that the
\* new capacity leaves so ends with the latest record, and has as many as there
\* is room for; from any other ring it takes some records that are older than
\* the change.
LEMMA ResizedSound ==
  ASSUME RingInv, enabled \in BOOLEAN, NEW n \in Capacities, n > 0
  PROVE  LET page == TakeRecords(n, SaturatingSub(records.count, n))
             r == [NewBuffer(records.count, n) EXCEPT !.ring = [i \in DOMAIN page |-> page[i].log]]
         IN  Sound(r, TRUE, IF StaysWhole(n) THEN since ELSE records.count) /\ r.capacity = n
  <1> SUFFICES ASSUME NEW page, page = TakeRecords(n, SaturatingSub(records.count, n)),
                      NEW r, r = [NewBuffer(records.count, n) EXCEPT
                                    !.ring = [i \in DOMAIN page |-> page[i].log]],
                      NEW s, s = IF StaysWhole(n) THEN since ELSE records.count
               PROVE  Sound(r, TRUE, s) /\ r.capacity = n
    BY Zenon
  <1>1. PICK count \in 0 .. MaxRecords, ring \in Seq(0 .. MaxRecords), capacity \in Nat \ {0} :
          count = records.count /\ ring = records.ring /\ capacity = records.capacity
    BY DEF RingInv
  <1>2. PICK len \in Nat : len = Len(ring) /\ len <= capacity /\ len <= count
    BY <1>1 DEF RingInv
  <1>3. /\ \A i \in 1 .. len : ring[i] \in 0 .. MaxRecords /\ ring[i] < count
        /\ count \in Nat /\ n \in Nat
    BY <1>1, <1>2, CapacitiesAssumption, UsizeAssumption DEF RingInv
  <1>4. PICK from \in Nat : from = (IF count >= n THEN count - n ELSE 0)
                            /\ from = SaturatingSub(records.count, n)
    BY <1>1, <1>3 DEF SaturatingSub
  <1>5. PICK moved : moved = [i \in DOMAIN page |-> page[i].log]
    OBVIOUS
  <1>6. \E l \in Nat : /\ moved \in [1 .. l -> 0 .. MaxRecords]
                       /\ l <= n /\ l <= count
                       /\ \A i \in 1 .. l : moved[i] < count
                       /\ StaysWhole(n) => /\ l = IF count <= n THEN count ELSE n
                                           /\ \A i \in 1 .. l : moved[i] = count - l + i - 1
    <2>1. CASE ~ enabled \/ from >= count
      <3>1. page = << >>
        BY <1>1, <1>4, <2>1 DEF TakeRecords
      <3>2. moved \in [1 .. 0 -> 0 .. MaxRecords]
        BY <1>5, <3>1
      <3>3. StaysWhole(n) => count = 0
        BY <1>3, <1>4, <2>1 DEF StaysWhole
      <3> QED
        BY <1>3, <3>2, <3>3
    <2>2. CASE enabled /\ from < count
      <3>7. page = TakeRecords(n, from) /\ count \in Nat /\ n \in Nat
        BY <1>3, <1>4, Zenon
      <3>8. count = records.count /\ len = Len(records.ring)
        BY <1>1, <1>2
      <3>9. PICK first \in Nat, l \in Nat :
              first = FirstIndex(records, from) /\ IsPage(page, n, count, len, first, l)
        BY <2>2, <3>7, <3>8, TakenRecords
      <3>1. l = IF len < first THEN 0 ELSE IF n <= len - first THEN n ELSE len - first
        BY <3>9 DEF IsPage
      <3>2. page = [i \in 1 .. l |-> [log |-> ring[first + i], offset |-> count + first - len + i - 1]]
        BY <1>1, <3>9 DEF IsPage
      <3>3. moved = [i \in 1 .. l |-> ring[first + i]]
        BY <1>5, <3>2
      <3>4. l <= n /\ l <= count /\ \A i \in 1 .. l : first + i \in 1 .. len
        BY <1>2, <1>3, <3>1
      <3>5. moved \in [1 .. l -> 0 .. MaxRecords] /\ \A i \in 1 .. l : moved[i] < count
        <4> SUFFICES ASSUME NEW i \in 1 .. l
                     PROVE  ring[first + i] \in 0 .. MaxRecords /\ ring[first + i] < count
          BY <3>3
        <4>1. PICK k \in 1 .. len : k = first + i
          BY <3>4
        <4> QED
          BY <1>3, <4>1
      <3>6. ASSUME StaysWhole(n)
            PROVE  /\ l = IF count <= n THEN count ELSE n
                   /\ \A i \in 1 .. l : moved[i] = count - l + i - 1
        <4>8. AllInPlace(count, len, capacity)
          BY <1>1, <3>6, <3>7, <3>8, WholeRing DEF StaysWhole
        <4>1. /\ len = IF count <= capacity THEN count ELSE capacity
              /\ \A i \in 1 .. len : ring[i] = count - len + i - 1
          BY <1>1, <4>8 DEF AllInPlace, FullOrAll
        <4>2. records \in RecordsType
          BY DEF RingInv, RecordsType
        <4>3. first = IF from + len < count THEN 0 ELSE len - (count - from)
          <5>1. FullOrAll(count, len, capacity)
            BY <4>8 DEF AllInPlace
          <5>2. StartsAt(FirstIndex(records, from), from, count, len)
            BY <1>1, <2>2, <3>7, <3>8, <4>2, <5>1, StartOfPage
          <5> QED
            BY <3>9, <5>2 DEF StartsAt
        <4>4. n <= capacity \/ count <= capacity
          BY <1>1, <3>6 DEF StaysWhole
        <4>5. len - first = (IF count <= n THEN count ELSE n) /\ first <= len
          <5>1. count \in Nat /\ n \in Nat /\ from = IF count >= n THEN count - n ELSE 0
            BY <1>3, <1>4
          <5>2. len = IF count <= capacity THEN count ELSE capacity
            BY <4>1
          <5>3. CASE from + len < count
            BY <1>2, <4>3, <4>4, <5>1, <5>2, <5>3
          <5>4. CASE from + len >= count
            BY <1>2, <4>3, <4>4, <5>1, <5>2, <5>4
          <5> QED
            BY <5>1, <5>3, <5>4
        <4>6. l = len - first
          BY <1>3, <3>1, <4>5
        <4>7. ASSUME NEW i \in 1 .. l PROVE moved[i] = count - l + i - 1
          <5>1. PICK k \in 1 .. len : k = first + i
            BY <3>4
          <5>2. ring[k] = count - len + k - 1
            BY <4>1
          <5>3. count - len + k - 1 = count - l + i - 1
            BY <1>3, <4>6, <5>1
          <5> QED
            BY <3>3, <5>1, <5>2, <5>3
        <4> QED
          BY <4>5, <4>6, <4>7
      <3> QED
        BY <3>4, <3>5, <3>6
    <2>3. from >= count \/ from < count
      BY <1>3
    <2> QED
      BY <2>1, <2>2, <2>3, Zenon
  <1>7. PICK l \in Nat : /\ moved \in Seq(0 .. MaxRecords) /\ Len(moved) = l
                         /\ l <= n /\ l <= count
                         /\ \A i \in 1 .. l : moved[i] < count /\ moved[i] \in Nat
                         /\ StaysWhole(n) => /\ l = IF count <= n THEN count ELSE n
                                             /\ \A i \in 1 .. l : moved[i] = count - l + i - 1
    <2>1. PICK l \in Nat : /\ moved \in [1 .. l -> 0 .. MaxRecords]
                           /\ l <= n /\ l <= count
                           /\ \A i \in 1 .. l : moved[i] < count
                           /\ StaysWhole(n) => /\ l = IF count <= n THEN count ELSE n
                                               /\ \A i \in 1 .. l : moved[i] = count - l + i - 1
      BY <1>6
    <2>2. moved \in Seq(0 .. MaxRecords)
      <3>1. moved \in UNION {[1 .. k -> 0 .. MaxRecords] : k \in Nat}
        BY <2>1, Zenon
      <3> QED
        BY <3>1, SeqDef, Zenon
    <2>3. Len(moved) = l
      <3>1. PICK m \in Nat : m = Len(moved) /\ DOMAIN moved = 1 .. m
        BY <2>2, LenProperties
      <3>2. \A i \in Int : i \in 1 .. l <=> i \in 1 .. m
        BY <2>1, <3>1
      <3>3. ~ l < m
        BY <3>2
      <3>4. ~ m < l
        BY <3>2
      <3> QED
        BY <3>1, <3>3, <3>4
    <2>4. \A i \in 1 .. l : moved[i] \in Nat
      BY <2>1, UsizeAssumption
    <2> QED
      BY <2>1, <2>2, <2>3, <2>4
  <1>8. r = [count |-> count, ring |-> moved, capacity |-> n]
    BY <1>1, <1>5 DEF NewBuffer, EmptyBuffer
  <1>9. r \in RecordsType /\ r.count = count /\ r.ring = moved /\ r.capacity = n
    BY <1>3, <1>7, <1>8 DEF RecordsType
  <1>10. PICK w \in Nat : /\ w = s /\ w <= count /\ w \in 0 .. MaxRecords
                          /\ ~ StaysWhole(n) => w = count
    BY <1>1, <1>3 DEF RingInv
  <1>11. l >= n \/ l >= count - w
    BY <1>3, <1>7, <1>10
  <1>12. ASSUME NEW i \in 1 .. l
         PROVE  moved[i] < count /\ (count - l + i - 1 >= w \/ moved[i] >= w => moved[i] = count - l + i - 1)
    <2>1. CASE StaysWhole(n)
      BY <1>7, <2>1
    <2>2. CASE ~ StaysWhole(n)
      BY <1>3, <1>7, <1>10, <2>2
    <2> QED
      BY <2>1, <2>2
  <1> QED
    BY <1>7, <1>9, <1>10, <1>11, <1>12 DEF Sound, Placed

-----------------------------------------------------------------------------
(* The invariant *)

\* The canister starts with an empty buffer and no settings.
LEMMA LogInvInit == LogInit => LogInv
  <1> SUFFICES ASSUME LogInit PROVE LogInv
    OBVIOUS
  <1>1. records = [count |-> 0, ring |-> << >>, capacity |-> 128] /\ enabled = FALSE
        /\ config = None /\ attached = FALSE /\ cell = None /\ since = 0
    BY DEF LogInit, EmptyBuffer
  <1>2. RingInv
    BY <1>1, UsizeAssumption DEF RingInv
  <1>3. SettingsInv
    BY <1>1 DEF SettingsInv, ConfigAsStored
  <1> QED
    BY <1>2, <1>3 DEF LogInv

\* init() and reload() start with an empty buffer of the capacity in the
\* settings.
LEMMA InitLogKeeps ==
  ASSUME NEW n \in Capacities, NEW f \in Filter \cup {Invalid}, InitLog(n, f),
         cell' \in StorableLogSettings, cell'.in_memory_records = n, cell'.log_filter = f,
         attached' = TRUE
  PROVE  LogInv'
  <1>1. config' = f /\ f \in Filter /\ records' = NewBuffer(0, n) /\ enabled' = (n > 0)
        /\ since' = 0
    BY DEF InitLog, TryInit, InitBuffer
  <1>2. 0 \in 0 .. MaxRecords /\ n \in Nat
    BY UsizeAssumption, CapacitiesAssumption
  <1>3. Sound(records', enabled', since') /\ (n > 0 => records'.capacity = n)
    BY <1>1, <1>2, NewBufferSound
  <1>4. RingInv'
    BY <1>3 DEF RingInv, Sound, Placed, RecordsType
  <1>5. cell' # None
    BY NoneAssumption
  <1>6. ConfigAsStored'
    BY <1>1, <1>3 DEF ConfigAsStored
  <1>7. SettingsInv'
    BY <1>1, <1>2, <1>5, <1>6 DEF SettingsInv
  <1> QED
    BY <1>4, <1>7 DEF LogInv

\* A step that leaves the settings alone and writes at most one record.
LEMMA LogKeeps ==
  ASSUME LogInv, NEW level \in Level, Log(level)
  PROVE  LogInv'
  <1>1. records' = Printed /\ UNCHANGED << enabled, config, attached, cell, since >>
        /\ records.count < MaxRecords
    BY DEF Log
  <1>2. Sound(Printed, enabled, since) /\ Printed.capacity = records.capacity
    BY <1>1, PrintedSound DEF LogInv, SettingsInv
  <1>3. RingInv'
    BY <1>1, <1>2 DEF RingInv, Sound, Placed, RecordsType
  <1>4. SettingsInv'
    BY <1>1, <1>2 DEF LogInv, SettingsInv, ConfigAsStored
  <1> QED
    BY <1>3, <1>4 DEF LogInv

\* set_logger_filter: the heap and the cell, and a record about it.
LEMMA SetLoggerFilterKeeps ==
  ASSUME LogInv, NEW caller \in Principal, NEW f \in Filter \cup {Invalid}, SetLoggerFilter(caller, f)
  PROVE  LogInv'
  <1>1. /\ f \in Filter /\ config # None /\ config' = f /\ attached
        /\ cell' = [cell EXCEPT !.log_filter = f]
        /\ records' = (IF Matches(Info, f) THEN Printed ELSE records)
        /\ (Matches(Info, f) => records.count < MaxRecords)
        /\ UNCHANGED << enabled, attached, since >>
    BY DEF SetLoggerFilter, UpdateFilters, CheckPermission
  <1>2. Sound(records', enabled, since) /\ records'.capacity = records.capacity
    BY <1>1, PrintedSound, RingInvIsSound DEF LogInv, SettingsInv
  <1>3. RingInv'
    BY <1>1, <1>2 DEF RingInv, Sound, Placed, RecordsType
  <1>4. cell \in StorableLogSettings
    BY <1>1 DEF LogInv, SettingsInv
  <1>5. /\ cell' \in StorableLogSettings /\ cell'.log_filter = f
        /\ cell'.in_memory_records = cell.in_memory_records /\ cell'.acl = cell.acl
    BY <1>1, <1>4 DEF StorableLogSettings
  <1>6. cell' # None /\ cell # None
    BY <1>4, <1>5, NoneAssumption
  <1>7. ConfigAsStored'
    BY <1>1, <1>2, <1>5 DEF LogInv, SettingsInv, ConfigAsStored
  <1>8. SettingsInv'
    BY <1>1, <1>4, <1>5, <1>6, <1>7 DEF LogInv, SettingsInv
  <1> QED
    BY <1>3, <1>8 DEF LogInv

\* set_in_memory_records moves the latest records.
LEMMA SetInMemoryRecordsKeeps ==
  ASSUME LogInv, NEW caller \in Principal, NEW n \in Capacities, SetInMemoryRecords(caller, n)
  PROVE  LogInv'
  <1>1. /\ cell' = [cell EXCEPT !.in_memory_records = n] /\ enabled' = (n > 0) /\ attached
        /\ ChangeCapacity(n) /\ UNCHANGED << config, attached >>
        /\ since' = IF StaysWhole(n) THEN since ELSE records.count
    BY DEF SetInMemoryRecords, ChangeCapacity, CheckPermission
  <1>2. n \in Nat /\ records.count \in 0 .. MaxRecords
    BY CapacitiesAssumption DEF LogInv, RingInv
  <1>3. Sound(records', enabled', since') /\ (n > 0 => records'.capacity = n)
    <2>1. CASE n = 0
      <3>1. records' = NewBuffer(records.count, n)
        BY <1>1, <2>1 DEF ChangeCapacity
      <3>2. since' \in {since, records.count} /\ enabled' = FALSE
        <4>1. since' = since \/ since' = records.count
          BY <1>1, Zenon
        <4>2. (n > 0) = FALSE
          BY <2>1
        <4>3. enabled' = FALSE
          BY <1>1, <4>2
        <4> QED
          BY <4>1, <4>3
      <3>3. Sound(NewBuffer(records.count, n), n > 0, records.count)
        BY <1>2, NewBufferSound
      <3>4. /\ NewBuffer(records.count, n).ring = << >>
            /\ NewBuffer(records.count, n).count = records.count /\ Len(<< >>) = 0
        BY DEF NewBuffer, EmptyBuffer
      <3>5. since \in 0 .. MaxRecords /\ since <= records.count
        BY DEF LogInv, RingInv
      <3> QED
        BY <1>2, <2>1, <3>1, <3>2, <3>3, <3>4, <3>5, UsizeAssumption DEF Sound, Placed
    <2>2. CASE n > 0
      <3>1. PICK page : page = TakeRecords(n, SaturatingSub(records.count, n))
        OBVIOUS
      <3>2. records' = [NewBuffer(records.count, n) EXCEPT !.ring = [i \in DOMAIN page |-> page[i].log]]
        BY <1>1, <1>2, <2>2, <3>1 DEF ChangeCapacity
      <3>3. PICK r : r = records'
        OBVIOUS
      <3>4. r = [NewBuffer(records.count, n) EXCEPT !.ring = [i \in DOMAIN page |-> page[i].log]]
        BY <3>2, <3>3, Zenon
      <3>5. RingInv /\ enabled \in BOOLEAN
        BY DEF LogInv, SettingsInv
      <3>6. Sound(r, TRUE, IF StaysWhole(n) THEN since ELSE records.count) /\ r.capacity = n
        BY <2>2, <3>1, <3>4, <3>5, ResizedSound
      <3> QED
        BY <1>1, <2>2, <3>3, <3>6 DEF Sound
    <2> QED
      BY <1>2, <2>1, <2>2
  <1>4. RingInv'
    BY <1>3 DEF RingInv, Sound, Placed, RecordsType
  <1>5. cell \in StorableLogSettings
    BY <1>1 DEF LogInv, SettingsInv
  <1>6. /\ cell' \in StorableLogSettings /\ cell'.log_filter = cell.log_filter
        /\ cell'.in_memory_records = n /\ cell'.acl = cell.acl
    BY <1>1, <1>2, <1>5 DEF StorableLogSettings
  <1>7. cell' # None /\ cell # None
    BY <1>5, <1>6, NoneAssumption
  <1>8. ConfigAsStored'
    BY <1>1, <1>3, <1>6 DEF LogInv, SettingsInv, ConfigAsStored
  <1>9. SettingsInv'
    BY <1>1, <1>2, <1>5, <1>6, <1>7, <1>8 DEF LogInv, SettingsInv
  <1> QED
    BY <1>4, <1>9 DEF LogInv

\* add_permission and remove_permission only change the access list, and only
\* for somebody who is in it.
LEMMA PermissionKeeps ==
  ASSUME LogInv, NEW caller \in Principal, NEW p \in Principal, NEW permission \in {ReadPermission, ConfigurePermission},
         AddPermission(caller, p, permission) \/ RemovePermission(caller, p, permission)
  PROVE  LogInv'
  <1>1. PICK acl \in LoggerAcl :
          cell' = [cell EXCEPT !.acl = acl] /\ cell.acl # {} /\ attached
          /\ UNCHANGED << records, enabled, config, attached, since >>
    <2>1. cell \in StorableLogSettings
      BY DEF LogInv, SettingsInv, AddPermission, RemovePermission, CheckPermission
    <2>2. cell.acl \cup {<< p, permission >>} \in LoggerAcl /\ cell.acl \ {<< p, permission >>} \in LoggerAcl
      BY <2>1 DEF StorableLogSettings, LoggerAcl
    <2>3. << caller, ConfigurePermission >> \in cell.acl /\ attached
      BY DEF AddPermission, RemovePermission, CheckPermission, ReadPermission, ConfigurePermission
    <2> QED
      BY <2>2, <2>3 DEF AddPermission, RemovePermission
  <1>2. cell \in StorableLogSettings
    BY <1>1 DEF LogInv, SettingsInv
  <1>3. /\ cell' \in StorableLogSettings /\ cell'.log_filter = cell.log_filter
        /\ cell'.in_memory_records = cell.in_memory_records
    BY <1>1, <1>2 DEF StorableLogSettings
  <1>4. cell' # None /\ cell # None
    BY <1>2, <1>3, NoneAssumption
  <1>5. RingInv'
    BY <1>1 DEF LogInv, RingInv
  <1>6. ConfigAsStored'
    BY <1>1, <1>3 DEF LogInv, SettingsInv, ConfigAsStored
  <1>7. SettingsInv'
    BY <1>1, <1>2, <1>3, <1>4, <1>6 DEF LogInv, SettingsInv
  <1> QED
    BY <1>5, <1>7 DEF LogInv

\* init() stores the settings that it starts with.
LEMMA InitStateKeeps ==
  ASSUME LogInv, NEW n \in Capacities, NEW f \in Filter \cup {Invalid}, NEW acl \in LoggerAcl \cup {None},
         InitState(Creator, n, f, acl)
  PROVE  LogInv'
  <1>1. PICK list \in LoggerAcl : list = IF acl = None THEN {<< Creator, ConfigurePermission >>} ELSE acl
    <2>1. {<< Creator, ConfigurePermission >>} \in LoggerAcl
      BY CreatorAssumption DEF LoggerAcl
    <2> QED
      BY <2>1
  <1>2. /\ InitLog(n, f) /\ f \in Filter /\ attached' = TRUE
        /\ cell' = [in_memory_records |-> n, log_filter |-> f, acl |-> list]
    BY <1>1 DEF InitState, InitLog
  <1>3. cell' \in StorableLogSettings
    BY <1>2, CapacitiesAssumption DEF StorableLogSettings
  <1> QED
    BY <1>2, <1>3, InitLogKeeps

\* An upgrade finds the settings, or stores the default ones that nobody may
\* change.
LEMMA UpgradeKeeps ==
  ASSUME LogInv, Upgrade
  PROVE  LogInv'
  <1>1. PICK settings : settings = IF cell = None THEN DefaultSettings ELSE cell
    OBVIOUS
  <1>2. /\ cell' = settings /\ attached' = TRUE
        /\ IF settings.acl = {}
           THEN config' = None /\ records' = EmptyBuffer(0, 128) /\ enabled' = FALSE /\ since' = 0
           ELSE InitLog(settings.in_memory_records, settings.log_filter)
    BY <1>1 DEF Upgrade, Reload
  <1>3. settings \in StorableLogSettings /\ settings # None
    <2>1. DefaultSettings \in StorableLogSettings
      BY DEF DefaultSettings, DefaultRecords, StorableLogSettings, Filter, Info, LoggerAcl
    <2> QED
      BY <1>1, <2>1, NoneAssumption DEF LogInv, SettingsInv
  <1>4. settings.acl # {} => settings.in_memory_records \in Capacities
    BY <1>1 DEF LogInv, SettingsInv, DefaultSettings
  <1>5. CASE settings.acl = {}
    <2>1. records' = [count |-> 0, ring |-> << >>, capacity |-> 128] /\ enabled' = FALSE
          /\ config' = None /\ since' = 0
      BY <1>2, <1>5 DEF EmptyBuffer
    <2>2. RingInv'
      BY <2>1, UsizeAssumption DEF RingInv
    <2>3. SettingsInv'
      BY <1>2, <1>3, <1>4, <1>5, <2>1 DEF SettingsInv, ConfigAsStored
    <2> QED
      BY <2>2, <2>3 DEF LogInv
  <1>6. CASE settings.acl # {}
    <2>1. settings.log_filter \in Filter
      BY <1>3 DEF StorableLogSettings
    <2> QED
      BY <1>2, <1>3, <1>4, <1>6, <2>1, InitLogKeeps
  <1> QED
    BY <1>5, <1>6

\* No message breaks the invariant.
LEMMA LogInvNext == LogInv /\ [LogNext]_logVars => LogInv'
  <1> SUFFICES ASSUME LogInv, [LogNext]_logVars PROVE LogInv'
    OBVIOUS
  <1>1. CASE UNCHANGED logVars
    BY <1>1 DEF logVars, LogInv, RingInv, SettingsInv, ConfigAsStored
  <1>2. CASE \E n \in Capacities, f \in Filter \cup {Invalid}, acl \in LoggerAcl \cup {None} :
               InitState(Creator, n, f, acl)
    BY <1>2, InitStateKeeps
  <1>3. ASSUME NEW caller \in Principal, UpdateMethod(caller) PROVE LogInv'
    BY <1>3, SetLoggerFilterKeeps, SetInMemoryRecordsKeeps, PermissionKeeps DEF UpdateMethod
  <1>4. CASE \E level \in Level : Log(level)
    BY <1>4, LogKeeps
  <1>5. CASE Upgrade
    BY <1>5, UpgradeKeeps
  <1> QED
    BY <1>1, <1>2, <1>3, <1>4, <1>5 DEF LogNext

\* The ring holds the latest records in their places, as many as were logged
\* since a capacity change left room for dropped ones, and the heap and the
\* stable cell agree, after every message and upgrade.
THEOREM LogInvariant == LogSpec => []LogInv
  BY LogInvInit, LogInvNext, PTL DEF LogSpec

-----------------------------------------------------------------------------
(* The properties *)

LEMMA LogInvTypes == LogInv => LogTypeOK
  BY DEF LogInv, RingInv, SettingsInv, LogTypeOK

\* LogRecords, settings and flags keep their types.
THEOREM LogTypes == LogSpec => []LogTypeOK
  BY LogInvTypes, LogInvariant, PTL

\* The logger runs with the settings that an upgrade would find in stable
\* memory, whichever setters were called and whichever of them failed.
THEOREM SettingsAreStored == LogSpec => []ConfigAsStored
  <1>1. LogInv => ConfigAsStored
    BY DEF LogInv, SettingsInv
  <1> QED
    BY <1>1, LogInvariant, PTL

\* A page never shows a record under another record's number, save records
\* that are older than a capacity change that left room for dropped ones, for
\* every capacity: the number is computed from the place in the ring.
THEOREM RecordsKeepTheirNumbers == LogSpec => []IdsAreAbsolute
  <1>1. LogInv => IdsAreAbsolute
    <2> SUFFICES ASSUME LogInv, NEW n \in Offsets, NEW from \in Offsets, NEW page,
                        page = TakeRecords(n, from), NEW i \in DOMAIN page
                 PROVE  page[i].offset >= since \/ page[i].log >= since => page[i].offset = page[i].log
      BY DEF IdsAreAbsolute
    <2>1. n \in Nat /\ from \in Nat
      BY UsizeAssumption DEF Offsets
    <2>2. PICK count \in Nat, len \in Nat : count = records.count /\ len = Len(records.ring)
      BY UsizeAssumption DEF LogInv, RingInv
    <2>3. enabled /\ from < count
      <3>1. ~ (~ enabled \/ from >= records.count)
        BY DEF TakeRecords
      <3> QED
        BY <2>1, <2>2, <3>1
    <2>4. RingInv
      BY DEF LogInv
    <2>5. PICK first \in Nat, l \in Nat :
            first = FirstIndex(records, from) /\ IsPage(page, n, count, len, first, l)
      BY <2>1, <2>2, <2>3, <2>4, TakenRecords
    <2>6. /\ i \in 1 .. l /\ page[i].log = records.ring[first + i]
          /\ page[i].offset = count + first - len + i - 1
          /\ l = IF len < first THEN 0 ELSE IF n <= len - first THEN n ELSE len - first
      BY <2>5 DEF IsPage
    <2>7. PICK k \in 1 .. len : k = first + i
      BY <2>1, <2>6
    <2>8. count - len + k - 1 >= since \/ records.ring[k] >= since => records.ring[k] = count - len + k - 1
      BY <2>2, <2>4 DEF RingInv
    <2>9. page[i].offset = count - len + k - 1
      BY <2>6, <2>7
    <2> QED
      BY <2>6, <2>7, <2>8, <2>9
  <1> QED
    BY <1>1, LogInvariant, PTL

\* take_records returns the page that the comment on ic_logs promises, for
\* every capacity, as long as no capacity change has left room for dropped
\* records, and again when the ring has been filled since: the subtraction and
\* the two remainders find the record that was asked for.
THEOREM PagesStartWhereAsked == LogSpec => []PageFromOffset
  <1>1. LogInv => PageFromOffset
    <2> SUFFICES ASSUME LogInv, enabled, Whole, NEW n \in Offsets, NEW from \in Offsets, NEW page,
                        page = TakeRecords(n, from)
                 PROVE  [i \in DOMAIN page |-> page[i].log] = PageAsked(n, from)
      BY DEF PageFromOffset
    <2>1. PICK count \in Nat, len \in Nat, capacity \in Nat \ {0} :
            /\ count = records.count /\ len = Len(records.ring) /\ capacity = records.capacity
      BY UsizeAssumption DEF LogInv, RingInv
    <2>2. n \in Nat /\ from \in Nat
      BY UsizeAssumption DEF Offsets
    <2>8. RingInv /\ records \in RecordsType
      BY DEF LogInv, RingInv, RecordsType
    <2>9. /\ len = IF count <= capacity THEN count ELSE capacity
          /\ \A i \in 1 .. len : records.ring[i] = count - len + i - 1
      <3>1. AllInPlace(count, len, capacity)
        BY <2>1, <2>8, WholeRing
      <3> QED
        BY <3>1 DEF AllInPlace, FullOrAll
    <2>10. PICK oldest \in Nat : oldest = SaturatingSub(records.count, records.capacity) /\ oldest = count - len
      BY <2>1, <2>9 DEF SaturatingSub
    <2>3. PICK start \in Nat : start = IF from < oldest THEN oldest ELSE from
      BY <2>2
    <2>4. PICK left \in Nat : left = (IF count >= start THEN count - start ELSE 0)
                              /\ left = SaturatingSub(records.count, start)
      BY <2>1 DEF SaturatingSub
    <2>5. PageAsked(n, from) = [i \in 1 .. (IF n <= left THEN n ELSE left) |-> start + i - 1]
      BY <2>3, <2>4, <2>10 DEF PageAsked
    <2>6. CASE from >= count
      <3>1. page = << >>
        BY <2>1, <2>6 DEF TakeRecords
      <3>2. left = 0 /\ (IF n <= left THEN n ELSE left) = 0
        BY <2>1, <2>2, <2>3, <2>4, <2>6, <2>10
      <3> QED
        BY <2>5, <3>1, <3>2
    <2>7. CASE from < count
      <3>8. PICK first \in Nat, l \in Nat :
              first = FirstIndex(records, from) /\ IsPage(page, n, count, len, first, l)
        BY <2>1, <2>2, <2>7, <2>8, TakenRecords
      <3>1. l = IF len < first THEN 0 ELSE IF n <= len - first THEN n ELSE len - first
        BY <3>8 DEF IsPage
      <3>2. first = IF from + len < count THEN 0 ELSE len - (count - from)
        <4>1. FullOrAll(count, len, capacity)
          BY <2>9 DEF FullOrAll
        <4>2. StartsAt(FirstIndex(records, from), from, count, len)
          BY <2>1, <2>2, <2>7, <2>8, <4>1, StartOfPage
        <4> QED
          BY <3>8, <4>2 DEF StartsAt
      <3>3. count - len + first = start /\ first <= len
        BY <2>2, <2>3, <2>7, <2>9, <2>10, <3>2
      <3>4. left = len - first
        BY <2>4, <2>9, <3>3
      <3>5. l = IF n <= left THEN n ELSE left
        BY <2>2, <3>1, <3>3, <3>4
      <3>6. DOMAIN page = 1 .. l /\ \A i \in 1 .. l : page[i].log = records.ring[first + i]
        BY <3>8 DEF IsPage
      <3>7. ASSUME NEW i \in 1 .. l PROVE page[i].log = start + i - 1
        <4>1. PICK k \in 1 .. len : k = first + i
          BY <2>2, <3>1, <3>3
        <4>2. records.ring[k] = count - len + k - 1
          BY <2>9
        <4>3. count - len + k - 1 = start + i - 1
          BY <3>3, <4>1
        <4> QED
          BY <3>6, <4>1, <4>2, <4>3
      <3> QED
        BY <2>5, <3>5, <3>6, <3>7
    <2> QED
      BY <2>1, <2>2, <2>6, <2>7
  <1> QED
    BY <1>1, LogInvariant, PTL

\* Once nobody has the Configure permission, no message and no upgrade changes
\* the settings or the access list: there is no way back.
THEOREM NobodyUnlocks == LogSpec => LockedForGood
  <1>1. LogInv /\ [LogNext]_logVars =>
          [attached /\ (\A p \in Principal : << p, ConfigurePermission >> \notin cell.acl) => UNCHANGED cell]_logVars
    <2> SUFFICES ASSUME LogInv, LogNext, attached,
                        \A p \in Principal : << p, ConfigurePermission >> \notin cell.acl
                 PROVE  UNCHANGED cell
      BY Zenon
    <2>1. cell # None
      BY DEF LogInv, SettingsInv
    <2>2. ASSUME NEW caller \in Principal PROVE ~ UpdateMethod(caller)
      <3>1. ~ CheckPermission(caller, ConfigurePermission)
        BY DEF CheckPermission, ReadPermission, ConfigurePermission
      <3> QED
        BY <3>1 DEF UpdateMethod, SetLoggerFilter, SetInMemoryRecords, AddPermission, RemovePermission
    <2>3. ASSUME NEW level \in Level, Log(level) PROVE UNCHANGED cell
      BY <2>3 DEF Log
    <2>4. ASSUME Upgrade PROVE UNCHANGED cell
      BY <2>1, <2>4 DEF Upgrade, Reload
    <2> QED
      BY <2>2, <2>3, <2>4 DEF LogNext, InitState
  <1> QED
    BY <1>1, LogInvariant, PTL DEF LogSpec, LockedForGood
=============================================================================
