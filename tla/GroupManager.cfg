SPECIFICATION Spec
CONSTANTS
  Groups = {g1, g2}
  Keys = {k1, k2}
  Offsets = {0, 5}
  Faults = {"crash", "write", "rename", "read"}
  Absent = Absent
  Partial = Partial
  MaxCommits = 3
INVARIANTS TypeOK AckedOnDisk AckedServed
