SPECIFICATION LogSpec
CONSTANTS
  Principal = {p1, p2}
  Creator = p1
  Capacities = {0, 1, 2, 3, 5}
  Usize = 16
  None = None
  Invalid = Invalid
  MaxRecords = 10
INVARIANT AskedIsFirst
