SPECIFICATION Spec
CONSTANTS
  MaxSegmentBytes = 57
  Sizes = {19, 20}
  TornSizes = {2, 10}
  Faults = {"crash"}
  Platform = "unix"
  MaxAppends = 4
  FetchSizes = {1}
INVARIANT FetchExact
