SPECIFICATION Spec
CONSTANTS
  MaxSegmentBytes = 57
  Sizes = {19, 20}
  TornSizes = {2, 10}
  Faults = {"crash", "write", "roll"}
  Platform = "unix"
  MaxAppends = 6
  FetchSizes = {1, 2, 5}
INVARIANTS SegmentsDisjoint  AckedReadable FetchFromAcked StatsExact
PROPERTY ImplementsLog
