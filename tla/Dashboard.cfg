CONSTANTS
  Topics = {t1, t2}
  Polls = {p1, p2}
  Limit = 1
  Keep = 2
  MaxMessages = 3
  MaxSelects = 2
  MaxFailures = 1
  none = none
SPECIFICATION Spec
INVARIANTS TypeOK ShownIsWindow NothingJumped
PROPERTY CatchesUp
