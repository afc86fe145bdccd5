SPECIFICATION Spec
CONSTANTS
  Rels = {0, 1, 2, 3, 4}
  Positions = {0, 19, 38}
  MaxEntries = 4
CHECK_DEADLOCK FALSE
INVARIANT LookupCorrect
PROPERTY LookupReturns
