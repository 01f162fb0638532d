------------------------- MODULE MCStableStructures -------------------------
(***************************************************************************)
(* Small instances of the structures of ic-stable-structures.  They share  *)
(* no state: a behaviour is about one of them, and the others stay as they *)
(* are made.                                                               *)
(***************************************************************************)
EXTENDS RingBuffer, CachedMap, MappedMemory, TLC

VARIABLE subject

SmallCapacities == 1 .. 3
SmallCounts == 0 .. 4

Subjects == {"ring buffer", "cached map", "mapped memory"}

\* One initial state of each of the others is enough.
StableInit ==
  /\ subject \in Subjects
  /\ Init /\ CacheInit /\ FileInit
  /\ subject # "ring buffer" => indices.capacity = 1
  /\ subject # "cached map" => structure = "btreemap" /\ max_cache_items = 2

StableNext ==
  /\ UNCHANGED subject
  /\ \/ subject = "ring buffer" /\ Next /\ UNCHANGED << cacheVars, fileVars >>
     \/ subject = "cached map" /\ CacheNext /\ UNCHANGED << vars, fileVars >>
     \/ subject = "mapped memory" /\ FileNext /\ UNCHANGED << vars, cacheVars >>

StableSpec == StableInit /\ [][StableNext]_<< subject, vars, cacheVars, fileVars >>

\* Values and readers are only compared.
StableSymmetry ==
  Permutations(MapValue) \cup Permutations(Reader)

----------------------------------------------------------------------------
\* The structures are well-formed.
StructuresTypeOK ==
  /\ TypeOK
  /\ subject = "cached map" => CacheTypeOK
  /\ subject = "mapped memory" => FileTypeOK
=============================================================================
