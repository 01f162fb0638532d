----------------------------- MODULE RingBuffer -----------------------------
(***************************************************************************)
(* StableRingBuffer of ic-stable-structures (common/ring_buffer.rs): a     *)
(* stable vector that is overwritten in a circle, and a stable cell with   *)
(* the three numbers that say where the history starts and ends.  The      *)
(* vector never shrinks but in clear() and resize(): behind the numbers it *)
(* holds values that were popped, truncated or are about to be overwritten.*)
(*                                                                         *)
(* One call is one step: a canister message that panics is rolled back,    *)
(* and both structures live in the memory that survives an upgrade, so     *)
(* that opening the buffer again changes nothing.                          *)
(***************************************************************************)
EXTENDS Naturals, Sequences

CONSTANTS
  Value,        \* the values pushed
  None,         \* the None of Option<T>
  Capacities,   \* the capacities the buffer is created with and resized to
  Counts,       \* the arguments of truncate()
  U64           \* 2^64, the modulus of u64 arithmetic

ASSUME NoneAssumption == None \notin Value \cup Nat
ASSUME CapacitiesAssumption == Capacities \subseteq Nat \ {0}
ASSUME CountsAssumption == Counts \subseteq Nat
ASSUME U64Assumption == U64 \in Nat \ {0} /\ \A c \in Capacities : c < U64

VARIABLES
  indices,    \* stable cell: StableRingBufferIndices
  data,       \* stable vector (indexed from 1 here, from 0 in the code)
  returned    \* what the last operation returned

vars == << indices, data, returned >>

Indices == [start : Nat, len : Nat, capacity : Nat]

Least(a, b) == IF a <= b THEN a ELSE b

-----------------------------------------------------------------------------
(* StableRingBufferIndices *)

NewIndices(capacity) == [start |-> 0, len |-> 0, capacity |-> capacity]

\* start and len are at most the length of a vector that fits into memory:
\* their sum does not overflow.
OffsetToIndex(ix, offset) == (ix.start + offset) % ix.capacity

\* An index into the vector, or None
IndexOfNth(ix, n) == IF n < ix.len THEN OffsetToIndex(ix, n) ELSE None

\* Mutant: the offset of the latest element is 1.
IndexOfNthFromEndOneBased(ix, index) ==
  IF index <= ix.len THEN IndexOfNth(ix, ix.len - index) ELSE None

\* checked_sub, with an index + 1 that wraps around at u64::MAX
IndexOfNthFromEnd(ix, index) ==
  LET n == (index + 1) % U64
  IN IF n <= ix.len THEN IndexOfNth(ix, ix.len - n) ELSE None

IncreaseLen(ix, by) == [ix EXCEPT !.len = Least(@ + by, ix.capacity)]

DecreaseLen(ix, by) == [ix EXCEPT !.len = IF by <= @ THEN @ - by ELSE 0]

IncreaseStart(ix, by) == [ix EXCEPT !.start = OffsetToIndex(ix, by)]

-----------------------------------------------------------------------------
(* StableRingBuffer *)

\* StableVec::get
Get(index) == IF index < Len(data) THEN data[index + 1] ELSE None

NthElement(n) ==
  IF n < indices.len THEN Get(IndexOfNth(indices, n)) ELSE None

NthElementFromEnd(n) ==
  LET index == IndexOfNthFromEnd(indices, n)
  IN IF index # None THEN Get(index) ELSE None

Init ==
  /\ \E c \in Capacities : indices = NewIndices(c)
  /\ data = << >>
  /\ returned = None

\* Mutant: only the vector is cleared.
ClearDataOnly ==
  /\ data' = << >>
  /\ returned' = None
  /\ UNCHANGED indices

Clear ==
  /\ indices' = NewIndices(indices.capacity)
  /\ data' = << >>
  /\ returned' = None

\* Mutant: the elements are copied from the oldest one on.
PreservedFromStart(n) == [i \in 1 .. n |-> Get(IndexOfNth(indices, i - 1))]

\* The n latest elements, oldest first
Preserved(n) == [i \in 1 .. n |-> Get(IndexOfNthFromEnd(indices, n - i))]

Resize(new_capacity) ==
  LET elements_to_copy == Least(indices.len, new_capacity)
  IN /\ returned' = None
     /\ IF new_capacity = indices.capacity
        THEN UNCHANGED << indices, data >>
        ELSE /\ data' = Preserved(elements_to_copy)
             /\ indices' = IncreaseLen(NewIndices(new_capacity), elements_to_copy)

\* Mutant: the length grows past the capacity.
PushIndicesUnbounded(ix) == [ix EXCEPT !.len = @ + 1]

PushIndices(ix) ==
  IF ix.len = ix.capacity THEN IncreaseStart(ix, 1) ELSE IncreaseLen(ix, 1)

Push(val) ==
  LET new_index == OffsetToIndex(indices, indices.len)
  IN /\ indices' = PushIndices(indices)
     /\ returned' = IF indices.len = indices.capacity THEN Get(new_index) ELSE None
     /\ data' = IF new_index = Len(data)
                THEN Append(data, val)
                ELSE [data EXCEPT ![new_index + 1] = val]

Pop ==
  IF indices.len = 0
  THEN returned' = None /\ UNCHANGED << indices, data >>
  ELSE /\ indices' = DecreaseLen(indices, 1)
       /\ returned' = Get(OffsetToIndex(indices, indices.len - 1))
       /\ UNCHANGED data

Truncate(n) ==
  /\ indices' = DecreaseLen(indices, n)
  /\ returned' = None
  /\ UNCHANGED data

Next ==
  \/ \E v \in Value : Push(v)
  \/ Pop
  \/ \E n \in Counts : Truncate(n)
  \/ Clear
  \/ \E c \in Capacities : Resize(c)

Spec == Init /\ [][Next]_vars

-----------------------------------------------------------------------------
(* What the buffer promises *)

(***************************************************************************)
(* The numbers describe a part of the vector that is there: the vector has *)
(* wrapped around only once it is as long as the capacity, and until then  *)
(* the history is a prefix of it.                                          *)
(***************************************************************************)
TypeOK ==
  /\ indices \in Indices
  /\ indices.capacity \in Capacities
  /\ data \in Seq(Value)
  /\ returned \in Value \cup {None}
  /\ indices.start < indices.capacity
  /\ indices.len <= indices.capacity
  /\ Len(data) <= indices.capacity
  /\ IF indices.start = 0
     THEN indices.len <= Len(data)
     ELSE Len(data) = indices.capacity

\* The history that the indices and the vector stand for
Items ==
  [n \in 1 .. indices.len |-> data[OffsetToIndex(indices, n - 1) + 1]]

History == INSTANCE BoundedHistory WITH items <- Items, capacity <- indices.capacity

(***************************************************************************)
(* The ring buffer is a bounded history: whatever is pushed, popped,       *)
(* truncated, cleared and resized, before or after it wrapped around, it   *)
(* holds the latest values in order and returns the ones it drops.         *)
(***************************************************************************)
IsBoundedHistory == History!Spec

(***************************************************************************)
(* The expect() calls of push and resize never panic: the element that is  *)
(* replaced is there, the index written is in the vector or just after it, *)
(* and every element to be copied is there.                                *)
(***************************************************************************)
NeverPanics ==
  LET new_index == OffsetToIndex(indices, indices.len)
  IN /\ new_index <= Len(data)
     /\ indices.len = indices.capacity => new_index < Len(data)
     /\ \A offset \in 0 .. indices.len - 1 :
          IndexOfNthFromEnd(indices, offset) \in 0 .. Len(data) - 1

(***************************************************************************)
(* first, last, nth_element and nth_element_from_end read the history, and *)
(* None beyond it, for every u64 argument: a value that was popped or      *)
(* truncated is never read though it is still in the vector.               *)
(***************************************************************************)
ReadsTheHistory ==
  \A n \in 0 .. U64 - 1 :
    /\ NthElement(n) = IF n < Len(Items) THEN Items[n + 1] ELSE None
    /\ NthElementFromEnd(n) = IF n < Len(Items) THEN Items[Len(Items) - n] ELSE None
=============================================================================
