SPECIFICATION Spec
CONSTANTS
  Readers = {r1, r2}
  Writers = {w1}
  MaxRecords = 2
  MaxCounts = {0, 2}
  NoWriter = NoWriter
INVARIANTS TypeOK LoneFetchExact
PROPERTIES AppendReturns FetchReturns
