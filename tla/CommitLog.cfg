SPECIFICATION Spec
CONSTANTS
  MaxSegmentBytes = 20
  Sizes = {18, 20}
  TornSizes = {2, 10}
  Faults = {"crash", "torn", "write", "roll", "index", "remap"}
  Platform = "unix"
  MaxAppends = 3
CHECK_DEADLOCK FALSE
INVARIANTS TypeOK AckedDurable AckedOrdered IndexesSorted OffsetsHaveRecords
PROPERTY RecordsStay
