CONSTANTS
  Base = 6
  NameLens = {1}
  KeyLens = {0}
  Layouts = {"bench"}
  CutSizes = {}
  MaxRequests = 2
  MaxTimeouts = 0
SPECIFICATION Spec
INVARIANT CountedIsStored
CHECK_DEADLOCK FALSE
