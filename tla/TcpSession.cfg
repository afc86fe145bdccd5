CONSTANTS
  Base = 6
  NameLens = {1, 33, 34}
  KeyLens = {17, 18}
  Layouts = {"broker", "cut", "runt"}
  CutSizes = {3, 4, 12}
  MaxRequests = 3
  MaxTimeouts = 1
SPECIFICATION Spec
INVARIANTS TypeOK OwnAnswer Refusals FetchedAsProduced ListedAsProduced OffsetsAsCommitted DiesOnlyAtLimit
CHECK_DEADLOCK FALSE
