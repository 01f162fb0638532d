SPECIFICATION StableSpec
SYMMETRY StableSymmetry
CONSTANTS
  Value = {v1, v2, v3, v4}
  None = None
  Capacities <- SmallCapacities
  Counts <- SmallCounts
  U64 = 8
  Key1 = {1, 2}
  Key2 = {1, 2}
  MapValue = {w1, w2}
  Absent = Absent
  Reader = {r1, r2}
  CacheCaps = {0, 2}
  Ids = {1, 2}
  PageValue = {1}
  MaxPages = 2
  MaxAllPages = 3
INVARIANTS
  StructuresTypeOK
  NeverPanics
  ReadsTheHistory
  CacheCoherent
  FlushedSurvives
  UnwrittenIsZero
  BackupIsOneInstant
PROPERTIES
  IsBoundedHistory
  IsOrderedMap
