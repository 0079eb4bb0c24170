\* Two overlapping writers, every fault.
SPECIFICATION Spec
CONSTANTS
  w1 = w1
  w2 = w2
  Writers <- TwoWriters
  Faults = {"stage", "rename", "restore", "crash"}
  MaxWrites = 5
SYMMETRY Alike
INVARIANTS
  RaisedNeverVisible
  LatestKept
