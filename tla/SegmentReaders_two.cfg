SPECIFICATION Spec
CONSTANTS
  Readers = {r1, r2}
  Writers = {w1}
  MaxRecords = 3
  MaxCounts = {1, 2}
  NoWriter = NoWriter
INVARIANT FetchExact
