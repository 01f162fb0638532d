--------------------------- MODULE BoundedHistory ---------------------------
(***************************************************************************)
(* What a bounded history promises its user: it keeps the values pushed    *)
(* last, in order, as many as its capacity allows, and every operation     *)
(* returns the value that the caller has to know of.  The abstract side of *)
(* RingBuffer.                                                             *)
(***************************************************************************)
EXTENDS Naturals, Sequences

CONSTANTS
  Value,        \* the values pushed
  None,         \* no value, and none of the values
  Capacities,   \* the capacities it may be given, none of them zero
  Counts        \* the arguments of Truncate

VARIABLES
  items,      \* what is kept, oldest first
  capacity,
  returned    \* what the last operation returned

vars == << items, capacity, returned >>

\* The last n elements of s, or all of them.
Latest(s, n) ==
  IF n >= Len(s) THEN s ELSE SubSeq(s, Len(s) - n + 1, Len(s))

Init ==
  /\ items = << >>
  /\ capacity \in Capacities
  /\ returned = None

\* The oldest value makes room, and is returned, if there is none left.
Push(v) ==
  /\ items' = Latest(Append(items, v), capacity)
  /\ returned' = IF Len(items) = capacity THEN items[1] ELSE None
  /\ UNCHANGED capacity

Pop ==
  /\ returned' = IF items = << >> THEN None ELSE items[Len(items)]
  /\ items' = SubSeq(items, 1, Len(items) - 1)
  /\ UNCHANGED capacity

\* Forget the n latest values.
Truncate(n) ==
  /\ items' = IF n <= Len(items) THEN SubSeq(items, 1, Len(items) - n) ELSE << >>
  /\ returned' = None
  /\ UNCHANGED capacity

Clear ==
  /\ items' = << >>
  /\ returned' = None
  /\ UNCHANGED capacity

Resize(c) ==
  /\ items' = Latest(items, c)
  /\ capacity' = c
  /\ returned' = None

Next ==
  \/ \E v \in Value : Push(v)
  \/ Pop
  \/ \E n \in Counts : Truncate(n)
  \/ Clear
  \/ \E c \in Capacities : Resize(c)

Spec == Init /\ [][Next]_vars
=============================================================================
